---- MODULE Spec2Model ----
(***************************************************************************)
(* The analytics request of the admin statistics router                    *)
(* (GET /analytics): reconstruction of visiting sessions from the          *)
(* page-view rows of activity_logs, dwell durations, the engagement        *)
(* summary and the per-page details joined from the page catalog.          *)
(* The document centre (routes/docs.js): creation, update and deletion of  *)
(* the rows of the docs table, and the tree built from them.               *)
(*                                                                         *)
(* Representation.                                                         *)
(*   - A nullable SQL column is <<>> (NULL) or <<v>> (the value v).        *)
(*   - A timestamp (created_at, updated_at) is held as its epoch           *)
(*     milliseconds, the value Date.getTime() returns for it.              *)
(*   - A JavaScript Map is a sequence of [k, v] entries in insertion       *)
(*     order, the order Map.prototype.values() iterates in.                *)
(*   - The quotient of a JavaScript division is an exact fraction          *)
(*     [num, den] in lowest terms; an integer n is compared with it        *)
(*     through Frac(n, 1). The rounding of doubles is modelled where a     *)
(*     product is rounded to a percentage (RoundedPercent).                *)
(*   - NaN is the integer NaN where the code computes whole numbers and    *)
(*     the fraction NotANumber where it divides.                           *)
(*   - Under SpecConcurrent every variable holds one value per request.    *)
(*   - A string the code edits character by character (a slug) is a        *)
(*     sequence of one-character strings.                                  *)
(*   - A field of a request body is <<>> when the body does not have it    *)
(*     (undefined) and <<v>> when it has the value v; the parent_id 0      *)
(*     stands for the falsy values null and 0.                             *)
(*   - The docs table is the set of its rows; new Date() is the counter    *)
(*     now, which every call advances. The columns content, summary and    *)
(*     cover, which no condition reads, are left out. The router does      *)
(*     not fix how the table is declared: a write that a unique index on   *)
(*     slug would refuse either fails or goes through, and a deletion of   *)
(*     a row that others refer to is any of what a parent_id column can    *)
(*     be declared to do.                                                  *)
(***************************************************************************)
EXTENDS Integers, Sequences, FiniteSets, TLC

VARIABLES pc, viewRows, i, visitorState, sessionPageCounts, events,
          sessionsMap, j, eventMetrics, summary, pageAgg, pages,
          pageDetails, response,
          docs, nextId, now, req

vars == <<pc, viewRows, i, visitorState, sessionPageCounts, events,
          sessionsMap, j, eventMetrics, summary, pageAgg, pages,
          pageDetails, response, docs, nextId, now, req>>

\* the state of the analytics request; the state of the document centre
statsVars == <<pc, viewRows, i, visitorState, sessionPageCounts, events,
               sessionsMap, j, eventMetrics, summary, pageAgg, pages,
               pageDetails, response>>

docsVars == <<docs, nextId, now, req>>

----------------------------------------------------------------------------
(* Bounds of the model *)

\* longest batch of view rows drawn from CoreRows, in ascending time order
MaxEvents == 3
\* longest batch of view rows drawn in any order
MaxAnyOrder == 2

(* Program constants *)

\* variant: one hour
SessionGapMsOneHour == 60 * 60 * 1000

\* 30 * 60 * 1000: the inactivity threshold in milliseconds
SessionGapMs == 30 * 60 * 1000
\* Math.min(1800, diffSec)
MaxDurationSec == 1800
\* Math.max(1, ...)
MinDurationSec == 1
\* let duration = 30
FallbackDurationSec == 30
\* .slice(0, 20)
TopPages == 20

----------------------------------------------------------------------------
(* Generic helpers *)

NULL == <<>>

Some(v) == <<v>>

RECURSIVE GCD(_, _)
GCD(a, b) == IF b = 0 THEN a ELSE GCD(b, a % b)

\* NaN where the code computes with whole numbers: the getTime() of an
\* invalid Date and every difference, duration and sum computed from it
NaN == -(2 ^ 30)

IsNaN(x) == x = NaN

\* a - b, a + b and a > b of JavaScript numbers
Minus(a, b) == IF IsNaN(a) \/ IsNaN(b) THEN NaN ELSE a - b

Plus(a, b) == IF IsNaN(a) \/ IsNaN(b) THEN NaN ELSE a + b

GreaterThan(a, b) == ~IsNaN(a) /\ ~IsNaN(b) /\ a > b

\* NaN as the result of a division
NotANumber == [num |-> 0, den |-> 0]

\* a / b for a >= 0 or NaN, b > 0, in lowest terms
Frac(a, b) ==
  IF IsNaN(a) THEN NotANumber
  ELSE LET g == GCD(a, b) IN [num |-> a \div g, den |-> b \div g]

\* variant: the value as it is
OrZeroKept(x) == x

\* x || 0 of a quotient: NaN and 0 give 0
OrZero(x) == IF x = NotANumber THEN [num |-> 0, den |-> 1] ELSE x

\* Math.round of the fraction a / b, a >= 0, b > 0 (half rounds up)
MathRound(a, b) == (2 * a + b) \div (2 * b)

\* The quotients a/b, in lowest terms and with b <= 60, whose product by 100
\* in IEEE-754 doubles falls below the exact value n + 1/2:
\* (23 / 40) * 100 is 57.49999999999999, while 100 * 23 / 40 is 57.5.
ProductBelowHalf == {[num |-> 23, den |-> 40]}

\* Math.round((a / b) * 100) as the doubles of JavaScript compute it
RoundedPercent(a, b) ==
  IF Frac(a, b) \in ProductBelowHalf THEN MathRound(100 * a, b) - 1
  ELSE MathRound(100 * a, b)

Max(a, b) == IF a >= b THEN a ELSE b

Min(a, b) == IF a <= b THEN a ELSE b

\* Map.prototype.has
MapHas(m, key) == \E n \in DOMAIN m : m[n].k = key

\* Map.prototype.get of a key the map holds
MapGet(m, key) == m[CHOOSE n \in DOMAIN m : m[n].k = key].v

\* map.get(key) || dflt
MapGetOr(m, key, dflt) == IF MapHas(m, key) THEN MapGet(m, key) ELSE dflt

\* Map.prototype.set: a new key is appended, a known key keeps its place
MapSet(m, key, val) ==
  IF MapHas(m, key)
    THEN LET at == CHOOSE n \in DOMAIN m : m[n].k = key
         IN SubSeq(m, 1, at - 1) \o <<[k |-> key, v |-> val]>>
              \o SubSeq(m, at + 1, Len(m))
    ELSE Append(m, [k |-> key, v |-> val])

\* Array.prototype.slice(0, n)
SliceFromStart(s, n) == SubSeq(s, 1, Min(n, Len(s)))

----------------------------------------------------------------------------
(* The rows the two queries can return *)

\* crypto.createHash('md5').update(ua).digest('hex') of the user agents of
\* the model
MD5Hex(ua) ==
  CASE ua = "Mozilla/5.0" -> "0e3c1d553071f45ae73c51aa46fc11d8"
    [] ua = "curl/8.0" -> "299e8ec99a2920b1b3aa0b619e1565bd"

UserIds == {NULL, Some(42)}

IpAddresses == {NULL, Some("1.2.3.4")}

UserAgents == {NULL, Some("Mozilla/5.0")}

ResourceIds == {"p1", "p2"}

\* created_at values, in ms: the same millisecond, a gap that rounds up to
\* 30 s (29.5 s), the threshold (1800 s), one millisecond and one second
\* over it
Times == {0, 29500, 1800000, 1800001, 1801000}

\* a further created_at, 5000 s after the first
LateTimes == {5000000}

ViewRow(rid, uid, ip, ua, t) ==
  [resource_id |-> rid, user_id |-> uid, ip_address |-> ip,
   user_agent |-> ua, created_at |-> t]

\* every combination of present and absent user_id, ip_address, user_agent
AllRows ==
  {ViewRow(rid, uid, ip, ua, t) :
     rid \in ResourceIds, uid \in UserIds, ip \in IpAddresses,
     ua \in UserAgents, t \in Times}

\* the rows of two visitors: a logged-in user and an anonymous address
CoreRows ==
  {r \in AllRows :
     /\ r.ip_address # NULL
     /\ r.user_agent # NULL}

\* ORDER BY al.created_at ASC
IsTimeAscending(rows) ==
  \A n \in 1..(Len(rows) - 1) : rows[n].created_at <= rows[n + 1].created_at

RECURSIVE BatchesOfLen(_, _)
BatchesOfLen(rowSet, n) ==
  IF n = 0 THEN {<<>>}
  ELSE {Append(p[1], p[2]) : p \in BatchesOfLen(rowSet, n - 1) \X rowSet}

Batches(rowSet, maxLen) == UNION {BatchesOfLen(rowSet, n) : n \in 0..maxLen}

\* the batches of n rows that ORDER BY al.created_at ASC can return (rows of
\* equal created_at come in either order)
RECURSIVE AscendingBatchesOfLen(_, _)
AscendingBatchesOfLen(rowSet, n) ==
  IF n = 0 THEN {<<>>}
  ELSE {Append(p[1], p[2]) :
          p \in {q \in AscendingBatchesOfLen(rowSet, n - 1) \X rowSet :
                   IsTimeAscending(Append(q[1], q[2]))}}

AscendingBatches(rowSet, maxLen) ==
  UNION {AscendingBatchesOfLen(rowSet, n) : n \in 0..maxLen}

\* u1 on p1 at 0 s, 100 s, 2000 s, 2100 s and u2 on p2 at 50 s, in
\* ascending time order
ScenarioRows ==
  << ViewRow("p1", NULL, Some("u1"), NULL, 0),
     ViewRow("p2", NULL, Some("u2"), NULL, 50000),
     ViewRow("p1", NULL, Some("u1"), NULL, 100000),
     ViewRow("p1", NULL, Some("u1"), NULL, 2000000),
     ViewRow("p1", NULL, Some("u1"), NULL, 2100000) >>

\* A busy page: BusyViews views of p1 within one minute, the first k by k
\* visitors of one view each, the others by one more visitor, for every k
\* from half of the views on.
BusyViews == 40

BusyVisitor(n, k) == "v" \o ToString(IF n <= k THEN n ELSE k + 1)

BusyRows(k) ==
  [n \in 1..BusyViews |-> ViewRow("p1", NULL, Some(BusyVisitor(n, k)), NULL, 1000 * n)]

BusyBatches == {BusyRows(k) : k \in (BusyViews \div 2)..BusyViews}

\* the results of the activity_logs query: time-ascending batches
ViewRowBatches ==
  AscendingBatches(CoreRows, MaxEvents)
    \cup AscendingBatchesOfLen(AllRows, 1)
    \cup {ScenarioRows}

\* batches of view rows in any order, as the reconstruction accepts them
AnyOrderRows ==
  CoreRows
    \cup {ViewRow("p1", Some(42), Some("1.2.3.4"), Some("Mozilla/5.0"), t) :
            t \in LateTimes}

AnyOrderBatches == Batches(AnyOrderRows, MaxAnyOrder)

\* rows whose created_at is no valid date, in any order
MaxInvalidDateEvents == 3

\* the rows ever inserted into docs; the timestamps new Date() hands out
MaxDocs == 3

MaxNow == 3

InvalidDateTimes == {NaN, 0, 1800001}

InvalidDateRows ==
  {ViewRow("p1", uid, Some("1.2.3.4"), NULL, t) :
     uid \in UserIds, t \in InvalidDateTimes}

InvalidDateBatches == Batches(InvalidDateRows, MaxInvalidDateEvents)

\* two requests in flight: views of p1 by the two visitors, at the start
\* and just over 30 minutes later
MaxConcurrentEvents == 2

Requests == {1, 2}

ConcurrentTimes == {0, 1800001}

ConcurrentRows ==
  {row \in CoreRows : row.resource_id = "p1" /\ row.created_at \in ConcurrentTimes}

ConcurrentBatches == AscendingBatches(ConcurrentRows, MaxConcurrentEvents)

Page(id, t) == [id |-> id, title |-> id, updated_at |-> t]

\* the results of SELECT id, title, updated_at FROM pages (no ORDER BY):
\* no page, one page, two pages in either order with every order of their
\* updated_at, and a catalog of one page more than the TopPages kept, whose
\* last rows are the pages the view rows refer to
LargeCatalog ==
  [n \in 1..(TopPages + 1) |->
     Page("p" \o ToString(TopPages + 2 - n), 1000 * n)]

PageCatalogs ==
  {<<>>, <<Page("p1", 1000)>>, LargeCatalog}
    \cup {<<Page(q[1], q[3]), Page(q[2], q[4])>> :
            q \in {c \in {"p1", "p2"} \X {"p1", "p2"} \X {1000, 2000} \X {1000, 2000} :
                     c[1] # c[2] /\ c[3] # c[4]}}
    \cup {<<Page("p1", 1000), Page("p2", 1000)>>,
          <<Page("p2", 1000), Page("p1", 1000)>>}

ConcurrentCatalogs ==
  {<<Page("p1", 1000)>>, <<Page("p2", 1000), Page("p1", 1000)>>}

----------------------------------------------------------------------------
(* Session reconstruction: the pure steps *)

\* if (row.user_id): neither null nor 0
TruthyNumber(v) == v # NULL /\ v[1] # 0

\* if (row.ip_address), if (row.user_agent): neither null nor ''
TruthyString(v) == v # NULL /\ v[1] # ""

\* variant: every row of one anonymous visitor
buildVisitorIdAnonymous(row) == "unknown"

\* variant: the address before the user
buildVisitorIdAddressFirst(row) ==
  IF TruthyString(row.ip_address) THEN row.ip_address[1]
  ELSE IF TruthyNumber(row.user_id) THEN ToString(row.user_id[1])
  ELSE IF TruthyString(row.user_agent)
         THEN "ua:" \o SubSeq(MD5Hex(row.user_agent[1]), 1, 12)
  ELSE "unknown"

buildVisitorId(row) ==
  IF TruthyNumber(row.user_id) THEN ToString(row.user_id[1])
  ELSE IF TruthyString(row.ip_address) THEN row.ip_address[1]
  ELSE IF TruthyString(row.user_agent)
         THEN "ua:" \o SubSeq(MD5Hex(row.user_agent[1]), 1, 12)
  ELSE "unknown"

\* variant: the index counted from 1
InitialVisitorStateFromOne == [lastTime |-> NULL, sessionIndex |-> 1]

\* visitorState.get(visitorId) || { lastTime: null, sessionIndex: 0 }
InitialVisitorState == [lastTime |-> NULL, sessionIndex |-> 0]

\* variants: the threshold included; the threshold taken in seconds
StartsNewSessionInclusive(state, createdMs) ==
  \/ state.lastTime = NULL
  \/ createdMs - state.lastTime[1] >= SessionGapMs

StartsNewSessionSeconds(state, createdMs) ==
  \/ state.lastTime = NULL
  \/ createdMs - state.lastTime[1] > 30 * 60

\* state.lastTime === null || createdMs - state.lastTime > 30 * 60 * 1000
StartsNewSession(state, createdMs) ==
  \/ state.lastTime = NULL
  \/ GreaterThan(Minus(createdMs, state.lastTime[1]), SessionGapMs)

\* `${visitorId}-${state.sessionIndex}`
SessionIdOf(visitorId, sessionIndex) ==
  visitorId \o "-" \o ToString(sessionIndex)

\* variant: the last time kept while the session goes on
LastTimeAfterKeptInSession(state, createdMs) ==
  IF StartsNewSession(state, createdMs) THEN Some(createdMs) ELSE state.lastTime

\* state.lastTime = createdMs, on either branch
LastTimeAfter(state, createdMs) == Some(createdMs)

\* variant: the count set, not incremented
CountAfterSetToOne(counts, sessionId) == 1

\* (sessionPageCounts.get(sessionId) || 0) + 1
CountAfter(counts, sessionId) == MapGetOr(counts, sessionId, 0) + 1

\* the body of for (const row of viewRows), on the three collections
Pass1Row(locals, row) ==
  LET visitorId == buildVisitorId(row)
      createdMs == row.created_at
      state == MapGetOr(locals.visitorState, visitorId, InitialVisitorState)
      sessionIndex == IF StartsNewSession(state, createdMs)
                        THEN state.sessionIndex + 1
                        ELSE state.sessionIndex
      sessionId == SessionIdOf(visitorId, sessionIndex)
  IN [visitorState |->
        MapSet(locals.visitorState, visitorId,
               [lastTime |-> LastTimeAfter(state, createdMs),
                sessionIndex |-> sessionIndex]),
      sessionPageCounts |->
        MapSet(locals.sessionPageCounts, sessionId,
               CountAfter(locals.sessionPageCounts, sessionId)),
      events |->
        Append(locals.events,
               [resource_id |-> row.resource_id,
                visitor_id |-> visitorId,
                session_id |-> sessionId,
                created_ms |-> createdMs])]

\* (a, b) => a.created_ms - b.created_ms
CompareCreatedMs(a, b) == Minus(a.created_ms, b.created_ms)

\* sessionEvents.sort(...): stable, each event goes before the first one
\* that compares greater than it
RECURSIVE InsertEvent(_, _)
InsertEvent(x, s) ==
  IF s = <<>> THEN <<x>>
  ELSE IF GreaterThan(CompareCreatedMs(Head(s), x), 0) THEN <<x>> \o s
       ELSE <<Head(s)>> \o InsertEvent(x, Tail(s))

RECURSIVE SortEvents(_)
SortEvents(s) ==
  IF s = <<>> THEN <<>>
  ELSE InsertEvent(s[Len(s)], SortEvents(SubSeq(s, 1, Len(s) - 1)))

\* The comparator is consistent unless an event of time NaN, which compares
\* equal to every event, sits with two events of different times.
IsConsistentlyOrdered(s) ==
  \/ \A n \in DOMAIN s : ~IsNaN(s[n].created_ms)
  \/ \A n, m \in DOMAIN s :
       IsNaN(s[n].created_ms) \/ IsNaN(s[m].created_ms)
         \/ s[n].created_ms = s[m].created_ms

PermutationsOf(s) ==
  {[n \in DOMAIN s |-> s[f[n]]] :
     f \in {g \in [DOMAIN s -> DOMAIN s] :
              \A n, m \in DOMAIN s : g[n] = g[m] => n = m}}

\* what sessionEvents.sort can leave in the array: the sorted events, and
\* with an inconsistent comparator an order the engine chooses
SortOutcomes(s) ==
  IF IsConsistentlyOrdered(s) THEN {SortEvents(s)} ELSE PermutationsOf(s)

\* variant: no upper clamp
DwellSecondsUnclamped(current, next) ==
  Max(MinDurationSec, MathRound(next.created_ms - current.created_ms, 1000))

\* Math.min(1800, Math.max(1, Math.round((next - current) / 1000))); round,
\* max and min of NaN are NaN
DwellSeconds(current, next) ==
  LET diff == Minus(next.created_ms, current.created_ms)
  IN IF IsNaN(diff) THEN NaN
     ELSE Min(MaxDurationSec, Max(MinDurationSec, MathRound(diff, 1000)))

\* variant: the fallback one event early
DurationAtOffByOne(sessionEvents, n) ==
  IF n + 2 <= Len(sessionEvents)
    THEN DwellSeconds(sessionEvents[n], sessionEvents[n + 1])
    ELSE FallbackDurationSec

\* the duration of sessionEvents[n], the session's events being sorted
DurationAt(sessionEvents, n) ==
  IF n + 1 <= Len(sessionEvents)
    THEN DwellSeconds(sessionEvents[n], sessionEvents[n + 1])
    ELSE FallbackDurationSec

\* the inner loop over one session's events, the array being sorted
MetricsOfSorted(sorted) ==
  [n \in 1..Len(sorted) |->
     [resource_id |-> sorted[n].resource_id,
      visitor_id |-> sorted[n].visitor_id,
      session_id |-> sorted[n].session_id,
      created_ms |-> sorted[n].created_ms,
      duration_seconds |-> DurationAt(sorted, n)]]

\* the body of the loop over sessionsMap.values() for one session
SessionMetrics(sessionEvents) == MetricsOfSorted(SortEvents(sessionEvents))

\* variant: the array replaced instead of extended
RECURSIVE GroupBySessionLastOnly(_, _)
GroupBySessionLastOnly(evts, n) ==
  IF n = 0 THEN <<>>
  ELSE MapSet(GroupBySessionLastOnly(evts, n - 1), evts[n].session_id, <<evts[n]>>)

\* the body of the loop that groups events by session_id
GroupEvent(map, evt) ==
  MapSet(map, evt.session_id, Append(MapGetOr(map, evt.session_id, <<>>), evt))

\* The loop over the events lo..hi, in order, continuing from map. The
\* range is split in two so that a long loop is evaluated at a depth
\* logarithmic in its length; Len(map) makes the map of the events before
\* lo be evaluated before the range is entered.
RECURSIVE GroupRange(_, _, _, _)
GroupRange(map, evts, lo, hi) ==
  IF Len(map) >= 0 /\ lo > hi THEN map
  ELSE IF lo = hi THEN GroupEvent(map, evts[lo])
  ELSE GroupRange(GroupRange(map, evts, lo, (lo + hi) \div 2),
                  evts, (lo + hi) \div 2 + 1, hi)

\* the loop that groups events by session_id, over the first n events
GroupBySession(evts, n) == GroupRange(<<>>, evts, 1, n)

\* the sum of duration_seconds over the event metrics lo..hi, the range
\* split in two as in GroupRange
RECURSIVE SumRange(_, _, _)
SumRange(metrics, lo, hi) ==
  IF lo > hi THEN 0
  ELSE IF lo = hi THEN metrics[lo].duration_seconds
  ELSE Plus(SumRange(metrics, lo, (lo + hi) \div 2),
            SumRange(metrics, (lo + hi) \div 2 + 1, hi))

\* eventMetrics.reduce((sum, e) => sum + e.duration_seconds, 0), over the
\* first n event metrics
SumDurations(metrics, n) == SumRange(metrics, 1, n)

\* variant: count >= 1
SinglePageSessionsAtLeastOne(counts) ==
  Cardinality({n \in DOMAIN counts : counts[n].v >= 1})

\* Array.from(sessionPageCounts.values()).filter(count => count === 1).length
SinglePageSessions(counts) == Cardinality({n \in DOMAIN counts : counts[n].v = 1})

\* totalSessions > 0 ? singlePageSessions / totalSessions : 0
BounceRatio(singlePageSessions, totalSessions) ==
  IF totalSessions > 0 THEN Frac(singlePageSessions, totalSessions)
  ELSE Frac(0, 1)

\* variants: the fallback duration for no event; an integer division
AvgDurationEmptyAsFallback(metrics) ==
  IF Len(metrics) > 0 THEN Frac(SumDurations(metrics, Len(metrics)), Len(metrics))
  ELSE Frac(FallbackDurationSec, 1)

AvgDurationTruncated(metrics) ==
  IF Len(metrics) > 0
    THEN Frac(SumDurations(metrics, Len(metrics)) \div Len(metrics), 1)
  ELSE Frac(0, 1)

\* totalPageViews > 0 ? sum of duration_seconds / totalPageViews : 0
AvgDuration(metrics) ==
  IF Len(metrics) > 0 THEN Frac(SumDurations(metrics, Len(metrics)), Len(metrics))
  ELSE Frac(0, 1)

\* the second loop, over the first n sessions of sessionsMap
RECURSIVE MetricsOfSessions(_, _)
MetricsOfSessions(sessions, n) ==
  IF n = 0 THEN <<>>
  ELSE MetricsOfSessions(sessions, n - 1) \o SessionMetrics(sessions[n].v)

\* variant: the sessions counted as the visitors
EngagementSummarySessionsAsVisitors(counts, metrics) ==
  LET totalPageViews == Len(metrics)
      uniqueVisitors == Cardinality({metrics[n].visitor_id : n \in DOMAIN metrics})
      singlePageSessions == SinglePageSessions(counts)
  IN [total_sessions |-> uniqueVisitors,
      total_page_views |-> totalPageViews,
      unique_visitors |-> uniqueVisitors,
      avg_duration_seconds |-> AvgDuration(metrics),
      single_page_sessions |-> singlePageSessions,
      bounce_ratio |-> BounceRatio(singlePageSessions, uniqueVisitors)]

\* the totals of lines 424-432
EngagementSummary(counts, metrics) ==
  LET totalSessions == Len(counts)
      totalPageViews == Len(metrics)
      uniqueVisitors == Cardinality({metrics[n].visitor_id : n \in DOMAIN metrics})
      singlePageSessions == SinglePageSessions(counts)
  IN [total_sessions |-> totalSessions,
      total_page_views |-> totalPageViews,
      unique_visitors |-> uniqueVisitors,
      avg_duration_seconds |-> AvgDuration(metrics),
      single_page_sessions |-> singlePageSessions,
      bounce_ratio |-> BounceRatio(singlePageSessions, totalSessions)]

\* variant: an entry that starts at one view
EmptyAggOneView ==
  [views |-> 1, durationSum |-> 0, uniqueVisitors |-> {}, bounceHits |-> 0]

EmptyAgg == [views |-> 0, durationSum |-> 0, uniqueVisitors |-> {}, bounceHits |-> 0]

\* the body of the loop that fills pageAgg
PageAggEvent(map, counts, evt) ==
  LET agg == MapGetOr(map, evt.resource_id, EmptyAgg)
      bounce == IF MapGetOr(counts, evt.session_id, 0) = 1 THEN 1 ELSE 0
  IN MapSet(map, evt.resource_id,
            [views |-> agg.views + 1,
             durationSum |-> Plus(agg.durationSum, evt.duration_seconds),
             uniqueVisitors |-> agg.uniqueVisitors \cup {evt.visitor_id},
             bounceHits |-> agg.bounceHits + bounce])

\* the loop over the event metrics lo..hi, in order, continuing from map;
\* split in two as in GroupRange
RECURSIVE PageAggRange(_, _, _, _, _)
PageAggRange(map, metrics, counts, lo, hi) ==
  IF Len(map) >= 0 /\ lo > hi THEN map
  ELSE IF lo = hi THEN PageAggEvent(map, counts, metrics[lo])
  ELSE PageAggRange(PageAggRange(map, metrics, counts, lo, (lo + hi) \div 2),
                    metrics, counts, (lo + hi) \div 2 + 1, hi)

\* the loop that fills pageAgg, over the first n event metrics
PageAggOf(metrics, counts, n) == PageAggRange(<<>>, metrics, counts, 1, n)

\* the collections of one invocation, as created at lines 374-376
NewLocals == [visitorState |-> <<>>, sessionPageCounts |-> <<>>, events |-> <<>>]

\* variants: the collections at module level, left by the previous
\* invocation; the session page counts alone at module level
InvocationLocalsShared(previous) == previous

InvocationLocalsSharedCounts(previous) ==
  [NewLocals EXCEPT !.sessionPageCounts = previous.sessionPageCounts]

\* the collections an invocation works on: created inside the handler,
\* whatever the previous invocation left
InvocationLocals(previous) == NewLocals

\* the first loop, over the first n rows
RECURSIVE Pass1From(_, _, _)
Pass1From(locals, rows, n) ==
  IF n = 0 THEN locals ELSE Pass1Row(Pass1From(locals, rows, n - 1), rows[n])

\* the synchronous code between the two queries, on the rows of the first
ReconstructFrom(locals, rows) ==
  LET pass1 == Pass1From(locals, rows, Len(rows))
      sessions == GroupBySession(pass1.events, Len(pass1.events))
      metrics == MetricsOfSessions(sessions, Len(sessions))
  IN [visitorState |-> pass1.visitorState,
      sessionPageCounts |-> pass1.sessionPageCounts,
      events |-> pass1.events,
      sessionsMap |-> sessions,
      eventMetrics |-> metrics,
      summary |-> EngagementSummary(pass1.sessionPageCounts, metrics),
      pageAgg |-> PageAggOf(metrics, pass1.sessionPageCounts, Len(metrics))]

ReconstructOf(rows) == ReconstructFrom(NewLocals, rows)

\* the callback of pages.map
PageDetailOf(p, aggMap) ==
  LET agg == MapGetOr(aggMap, p.id, EmptyAgg)
      count == agg.views
  IN [title |-> p.title,
      views |-> count,
      unique_visitors |-> Cardinality(agg.uniqueVisitors),
      avg_time |-> IF count > 0 THEN Frac(agg.durationSum, count) ELSE Frac(0, 1),
      bounce_rate |-> IF count > 0 THEN RoundedPercent(agg.bounceHits, count) ELSE 0,
      updated_at |-> p.updated_at]

\* variant: no tie-break
ComparePageDetailsViewsOnly(a, b) == b.views - a.views

\* the comparator of pageDetails' sort
ComparePageDetails(a, b) ==
  IF b.views # a.views THEN b.views - a.views
  ELSE b.updated_at - a.updated_at

RECURSIVE InsertPageDetail(_, _)
InsertPageDetail(x, s) ==
  IF s = <<>> THEN <<x>>
  ELSE IF ComparePageDetails(Head(s), x) > 0 THEN <<x>> \o s
       ELSE <<Head(s)>> \o InsertPageDetail(x, Tail(s))

RECURSIVE SortPageDetails(_)
SortPageDetails(s) ==
  IF s = <<>> THEN <<>>
  ELSE InsertPageDetail(s[Len(s)], SortPageDetails(SubSeq(s, 1, Len(s) - 1)))

\* variants: only the pages with traffic; the slice before the sort
PageDetailsOfTrafficOnly(catalog, aggMap) ==
  LET visited == SelectSeq(catalog, LAMBDA p : MapHas(aggMap, p.id))
  IN SliceFromStart(
       SortPageDetails([n \in DOMAIN visited |-> PageDetailOf(visited[n], aggMap)]),
       TopPages)

PageDetailsOfSliceFirst(catalog, aggMap) ==
  SortPageDetails(
    [n \in 1..Min(TopPages, Len(catalog)) |-> PageDetailOf(catalog[n], aggMap)])

\* pages.map(...).sort(...).slice(0, 20)
PageDetailsOf(catalog, aggMap) ==
  SliceFromStart(
    SortPageDetails([n \in DOMAIN catalog |-> PageDetailOf(catalog[n], aggMap)]),
    TopPages)

\* seconds.toString().padStart(2, '0') of an integer 0..59
PadTwo(n) == IF n < 10 THEN "0" \o ToString(n) ELSE ToString(n)

\* !seconds || seconds <= 0 holds for 0 and for NaN
formatAverageTime(seconds) ==
  IF seconds = NotANumber \/ seconds.num <= 0 THEN "0:00"
  ELSE LET whole == seconds.num \div seconds.den
       IN ToString(whole \div 60) \o ":" \o PadTwo(whole % 60)

\* the engagementSummary object: every total || 0 (a count is kept by it)
engagementSummary(totals) ==
  [total_sessions |-> totals.total_sessions,
   total_page_views |-> totals.total_page_views,
   unique_visitors |-> totals.unique_visitors,
   avg_duration_seconds |-> OrZero(totals.avg_duration_seconds),
   bounce_ratio |-> OrZero(totals.bounce_ratio)]

\* the metrics object of the response
MetricsOf(s) ==
  LET e == engagementSummary(s)
  IN [totalVisits |-> e.total_sessions,
      uniqueVisitors |-> e.unique_visitors,
      pageViews |-> e.total_page_views,
      avgTimeOnPage |-> formatAverageTime(e.avg_duration_seconds),
      bounceRate |-> RoundedPercent(e.bounce_ratio.num, e.bounce_ratio.den)]

----------------------------------------------------------------------------
(* The document centre: the table and the requests in flight *)

\* the requests that can be in flight together
DocRequests == {1, 2}

\* a field a request body does not have; a field it has
Undefined == <<>>

Given(v) == <<v>>

IsUndefined(field) == Len(field) = 0

\* req.body, the fields the handlers read
Body(title, slug, parent_id, type, status) ==
  [title |-> title, slug |-> slug, parent_id |-> parent_id, type |-> type,
   status |-> status]

EmptyBody == Body(Undefined, Undefined, Undefined, Undefined, Undefined)

\* res.status(code).json(...), with the data of GET /tree
Reply(code, data) == Some([status |-> code, data |-> data])

\* no request
IdleRequest ==
  [op |-> "none", pc |-> "idle", id |-> 0, payload |-> EmptyBody,
   existing |-> NULL, publishedAt |-> NULL, response |-> NULL]

\* an empty table, the first AUTO_INCREMENT id, no request
DocsInit ==
  /\ docs = {}
  /\ nextId = 1
  /\ now = 1
  /\ req = [r \in DocRequests |-> IdleRequest]

----------------------------------------------------------------------------
(* The request, step by step *)

Init ==
  /\ pc = "start"
  /\ viewRows = <<>>
  /\ i = 1
  /\ visitorState = <<>>
  /\ sessionPageCounts = <<>>
  /\ events = <<>>
  /\ sessionsMap = <<>>
  /\ j = 1
  /\ eventMetrics = <<>>
  /\ summary = NULL
  /\ pageAgg = <<>>
  /\ pages = <<>>
  /\ pageDetails = <<>>
  /\ response = NULL
  /\ DocsInit

\* await db.execute(... ORDER BY al.created_at ASC) resolves with `rows`
ReceiveViewRows(rows) ==
  /\ viewRows' = rows
  /\ pc' = "pass1"
  /\ UNCHANGED <<docsVars, i, visitorState, sessionPageCounts, events, sessionsMap, j,
                 eventMetrics, summary, pageAgg, pages, pageDetails, response>>

FetchViewRows ==
  /\ pc = "start"
  /\ \E rows \in ViewRowBatches : ReceiveViewRows(rows)

\* the same query, its result taken in any order
FetchViewRowsAnyOrder ==
  /\ pc = "start"
  /\ \E rows \in AnyOrderBatches : ReceiveViewRows(rows)

\* one iteration of for (const row of viewRows)
Pass1Step ==
  /\ pc = "pass1"
  /\ i <= Len(viewRows)
  /\ LET after == Pass1Row([visitorState |-> visitorState,
                            sessionPageCounts |-> sessionPageCounts,
                            events |-> events], viewRows[i])
     IN /\ visitorState' = after.visitorState
        /\ sessionPageCounts' = after.sessionPageCounts
        /\ events' = after.events
  /\ i' = i + 1
  /\ UNCHANGED <<docsVars, pc, viewRows, sessionsMap, j, eventMetrics, summary, pageAgg,
                 pages, pageDetails, response>>

\* variant: the grouping begins while rows are left
GroupEventsBeforeEnd ==
  /\ pc = "pass1"
  /\ i > 1
  /\ sessionsMap' = GroupBySession(events, Len(events))
  /\ pc' = "pass2"
  /\ UNCHANGED <<docsVars, viewRows, i, visitorState, sessionPageCounts, events, j,
                 eventMetrics, summary, pageAgg, pages, pageDetails, response>>

\* the first loop ends; the events are grouped into sessionsMap
GroupEvents ==
  /\ pc = "pass1"
  /\ i > Len(viewRows)
  /\ sessionsMap' = GroupBySession(events, Len(events))
  /\ pc' = "pass2"
  /\ UNCHANGED <<docsVars, viewRows, i, visitorState, sessionPageCounts, events, j,
                 eventMetrics, summary, pageAgg, pages, pageDetails, response>>

\* one iteration of for (const sessionEvents of sessionsMap.values())
Pass2Step ==
  /\ pc = "pass2"
  /\ j <= Len(sessionsMap)
  /\ \E sorted \in SortOutcomes(sessionsMap[j].v) :
       eventMetrics' = eventMetrics \o MetricsOfSorted(sorted)
  /\ j' = j + 1
  /\ UNCHANGED <<docsVars, pc, viewRows, i, visitorState, sessionPageCounts, events,
                 sessionsMap, summary, pageAgg, pages, pageDetails, response>>

\* the totals and pageAgg, up to the query of the page catalog
Aggregate ==
  /\ pc = "pass2"
  /\ j > Len(sessionsMap)
  /\ summary' = EngagementSummary(sessionPageCounts, eventMetrics)
  /\ pageAgg' = PageAggOf(eventMetrics, sessionPageCounts, Len(eventMetrics))
  /\ pc' = "fetchPages"
  /\ UNCHANGED <<docsVars, viewRows, i, visitorState, sessionPageCounts, events,
                 sessionsMap, j, eventMetrics, pages, pageDetails, response>>

\* await db.execute(SELECT id, title, updated_at FROM pages) resolves
FetchPages ==
  /\ pc = "fetchPages"
  /\ \E catalog \in PageCatalogs : pages' = catalog
  /\ pc' = "respond"
  /\ UNCHANGED <<docsVars, viewRows, i, visitorState, sessionPageCounts, events,
                 sessionsMap, j, eventMetrics, summary, pageAgg, pageDetails,
                 response>>

\* pageDetails and res.json
Respond ==
  /\ pc = "respond"
  /\ pageDetails' = PageDetailsOf(pages, pageAgg)
  /\ response' = [status |-> 200, success |-> TRUE, metrics |-> MetricsOf(summary)]
  /\ pc' = "done"
  /\ UNCHANGED <<docsVars, viewRows, i, visitorState, sessionPageCounts, events,
                 sessionsMap, j, eventMetrics, summary, pageAgg, pages>>

\* a query rejects: catch (error) { res.status(500).json(...) }
QueryFails ==
  /\ pc \in {"start", "fetchPages"}
  /\ response' = [status |-> 500, success |-> FALSE, metrics |-> NULL]
  /\ pc' = "failed"
  /\ UNCHANGED <<docsVars, viewRows, i, visitorState, sessionPageCounts, events,
                 sessionsMap, j, eventMetrics, summary, pageAgg, pages,
                 pageDetails>>

Reconstruct ==
  \/ Pass1Step
  \/ GroupEvents
  \/ Pass2Step
  \/ Aggregate
  \/ FetchPages
  \/ Respond
  \/ QueryFails

Next == FetchViewRows \/ Reconstruct

Spec == Init /\ [][Next]_vars

\* the request over the views of a busy page
FetchViewRowsBusyPage ==
  /\ pc = "start"
  /\ \E rows \in BusyBatches : ReceiveViewRows(rows)

NextBusyPage == FetchViewRowsBusyPage \/ Reconstruct

SpecBusyPage == Init /\ [][NextBusyPage]_vars

NextAnyOrder == FetchViewRowsAnyOrder \/ Reconstruct

\* the request over rows some of which have an invalid created_at
FetchViewRowsInvalidDate ==
  /\ pc = "start"
  /\ \E rows \in InvalidDateBatches : ReceiveViewRows(rows)

NextInvalidDate == FetchViewRowsInvalidDate \/ Reconstruct

SpecInvalidDate == Init /\ [][NextInvalidDate]_vars

SpecAnyOrder == Init /\ [][NextAnyOrder]_vars

----------------------------------------------------------------------------
(* Two requests in flight. Every variable holds one value per request. The
   handler is an async function on one thread: a request runs without
   interruption from one await to the next, and the other request can run
   while it waits for a query. *)

InitConcurrent ==
  /\ pc = [r \in Requests |-> "start"]
  /\ viewRows = [r \in Requests |-> <<>>]
  /\ i = [r \in Requests |-> 1]
  /\ visitorState = [r \in Requests |-> <<>>]
  /\ sessionPageCounts = [r \in Requests |-> <<>>]
  /\ events = [r \in Requests |-> <<>>]
  /\ sessionsMap = [r \in Requests |-> <<>>]
  /\ j = [r \in Requests |-> 1]
  /\ eventMetrics = [r \in Requests |-> <<>>]
  /\ summary = [r \in Requests |-> NULL]
  /\ pageAgg = [r \in Requests |-> <<>>]
  /\ pages = [r \in Requests |-> <<>>]
  /\ pageDetails = [r \in Requests |-> <<>>]
  /\ response = [r \in Requests |-> NULL]
  /\ DocsInit

\* the collections the other request's invocation left
LeftByOther(r) ==
  LET other == CHOOSE o \in Requests : o # r
  IN [visitorState |-> visitorState[other],
      sessionPageCounts |-> sessionPageCounts[other],
      events |-> events[other]]

\* the view query of request r resolves; r runs up to the query of the pages
ReqReconstruct(r) ==
  /\ pc[r] = "start"
  /\ \E rows \in ConcurrentBatches :
       LET run == ReconstructFrom(InvocationLocals(LeftByOther(r)), rows)
       IN /\ viewRows' = [viewRows EXCEPT ![r] = rows]
          /\ i' = [i EXCEPT ![r] = Len(rows) + 1]
          /\ visitorState' = [visitorState EXCEPT ![r] = run.visitorState]
          /\ sessionPageCounts' =
               [sessionPageCounts EXCEPT ![r] = run.sessionPageCounts]
          /\ events' = [events EXCEPT ![r] = run.events]
          /\ sessionsMap' = [sessionsMap EXCEPT ![r] = run.sessionsMap]
          /\ j' = [j EXCEPT ![r] = Len(run.sessionsMap) + 1]
          /\ eventMetrics' = [eventMetrics EXCEPT ![r] = run.eventMetrics]
          /\ summary' = [summary EXCEPT ![r] = run.summary]
          /\ pageAgg' = [pageAgg EXCEPT ![r] = run.pageAgg]
  /\ pc' = [pc EXCEPT ![r] = "fetchPages"]
  /\ UNCHANGED <<docsVars, pages, pageDetails, response>>

\* the query of the pages of request r resolves; r runs up to res.json
ReqRespond(r) ==
  /\ pc[r] = "fetchPages"
  /\ \E catalog \in ConcurrentCatalogs :
       /\ pages' = [pages EXCEPT ![r] = catalog]
       /\ pageDetails' = [pageDetails EXCEPT ![r] = PageDetailsOf(catalog, pageAgg[r])]
  /\ response' = [response EXCEPT ![r] =
                    [status |-> 200, success |-> TRUE,
                     metrics |-> MetricsOf(summary[r])]]
  /\ pc' = [pc EXCEPT ![r] = "done"]
  /\ UNCHANGED <<docsVars, viewRows, i, visitorState, sessionPageCounts, events,
                 sessionsMap, j, eventMetrics, summary, pageAgg>>

\* a query of request r rejects
ReqQueryFails(r) ==
  /\ pc[r] \in {"start", "fetchPages"}
  /\ response' = [response EXCEPT ![r] =
                    [status |-> 500, success |-> FALSE, metrics |-> NULL]]
  /\ pc' = [pc EXCEPT ![r] = "failed"]
  /\ UNCHANGED <<docsVars, viewRows, i, visitorState, sessionPageCounts, events,
                 sessionsMap, j, eventMetrics, summary, pageAgg, pages,
                 pageDetails>>

NextConcurrent ==
  \E r \in Requests : ReqReconstruct(r) \/ ReqRespond(r) \/ ReqQueryFails(r)

SpecConcurrent == InitConcurrent /\ [][NextConcurrent]_vars

----------------------------------------------------------------------------
(* The document centre: slugs, the tree *)

\* toLowerCase over the characters of the slugs below
Lower(c) == IF c = "A" THEN "a" ELSE c

RECURSIVE StripLeft(_, _)
StripLeft(s, c) ==
  IF s # <<>> /\ Head(s) = c THEN StripLeft(Tail(s), c) ELSE s

RECURSIVE StripRight(_, _)
StripRight(s, c) ==
  IF s # <<>> /\ s[Len(s)] = c THEN StripRight(SubSeq(s, 1, Len(s) - 1), c)
  ELSE s

\* variant: no lower case
normalizeSlugCaseKept(slug) ==
  IF IsUndefined(slug) \/ Len(slug[1]) = 0 THEN <<>>
  ELSE StripRight(StripLeft(StripRight(StripLeft(slug[1], " "), " "), "/"), "/")

\* slug.trim().replace(/^\/+|\/+$/g, '').toLowerCase(), '' for no string
normalizeSlug(slug) ==
  IF IsUndefined(slug) \/ Len(slug[1]) = 0 THEN <<>>
  ELSE LET trimmed == StripRight(StripLeft(slug[1], " "), " ")
           bare == StripRight(StripLeft(trimmed, "/"), "/")
       IN IF bare = <<>> THEN <<>>
          ELSE [n \in DOMAIN bare |-> Lower(bare[n])]

\* a row of docs
DocRow(id, title, slug, parent_id, type, status, published_at) ==
  [id |-> id, title |-> title, slug |-> slug, parent_id |-> parent_id,
   sort_order |-> 0, type |-> type, status |-> status,
   published_at |-> published_at]

\* ORDER BY parent_id ASC, sort_order ASC, id ASC (NULL first)
RowBefore(a, b) ==
  LET pa == IF a.parent_id = NULL THEN 0 ELSE a.parent_id[1]
      pb == IF b.parent_id = NULL THEN 0 ELSE b.parent_id[1]
  IN \/ pa < pb
     \/ pa = pb /\ a.sort_order < b.sort_order
     \/ pa = pb /\ a.sort_order = b.sort_order /\ a.id < b.id

RECURSIVE OrderBy(_)
OrderBy(rows) ==
  IF rows = {} THEN <<>>
  ELSE LET first == CHOOSE d \in rows : \A e \in rows \ {d} : RowBefore(d, e)
       IN <<first>> \o OrderBy(rows \ {first})

\* a.sort_order === b.sort_order ? a.id - b.id : a.sort_order - b.sort_order
CompareNodes(a, b) ==
  IF a.sort_order = b.sort_order THEN a.id - b.id
  ELSE a.sort_order - b.sort_order

RECURSIVE InsertNode(_, _)
InsertNode(x, s) ==
  IF s = <<>> THEN <<x>>
  ELSE IF CompareNodes(Head(s), x) > 0 THEN <<x>> \o s
       ELSE <<Head(s)>> \o InsertNode(x, Tail(s))

RECURSIVE sortNodes(_)
sortNodes(nodes) ==
  IF nodes = <<>> THEN <<>>
  ELSE InsertNode(nodes[Len(nodes)], sortNodes(SubSeq(nodes, 1, Len(nodes) - 1)))

\* map.has(id)
InMap(flatDocs, id) == \E n \in DOMAIN flatDocs : flatDocs[n].id = id

\* doc.parent_id && map.has(doc.parent_id)
HasParentNode(doc, flatDocs) ==
  doc.parent_id # NULL /\ InMap(flatDocs, doc.parent_id[1])

\* variant: only the docs without a parent_id are roots
IsRootNullParentOnly(doc, flatDocs) == doc.parent_id = NULL

\* the else branch of line 24
IsRoot(doc, flatDocs) == ~HasParentNode(doc, flatDocs)

\* the node of a doc with the nodes pushed to its children, sorted
RECURSIVE NodeOf(_, _)
NodeOf(doc, flatDocs) ==
  LET pushed == SelectSeq(flatDocs, LAMBDA d : d.parent_id = Some(doc.id))
  IN [id |-> doc.id, title |-> doc.title, slug |-> doc.slug,
      parent_id |-> doc.parent_id, sort_order |-> doc.sort_order,
      status |-> doc.status, type |-> doc.type,
      children |-> sortNodes([n \in DOMAIN pushed |-> NodeOf(pushed[n], flatDocs)])]

buildTree(flatDocs) ==
  LET rootDocs == SelectSeq(flatDocs, LAMBDA d : IsRoot(d, flatDocs))
  IN sortNodes([n \in DOMAIN rootDocs |-> NodeOf(rootDocs[n], flatDocs)])

----------------------------------------------------------------------------
(* The document centre: the handlers. A handler runs without interruption
   from one await to the next; an action is a query with the code that
   follows it up to the next query. *)

RowsWithId(id) == {d \in docs : d.id = id}

RowsWithSlug(slug) == {d \in docs : d.slug = slug}

InFlight == {r \in DocRequests : req[r].pc \notin {"idle", "done"}}

\* the request r takes the code of one handler from its start
Accepts(r) ==
  /\ req[r].pc \in {"idle", "done"}
  /\ now + Cardinality(InFlight) <= MaxNow

Started(r, op, at, id, body) ==
  [req EXCEPT ![r] = [op |-> op, pc |-> at, id |-> id, payload |-> body,
                      existing |-> NULL, publishedAt |-> NULL,
                      response |-> NULL]]

\* return res.status(code).json(...)
Replied(r, op, id, body, code, data) ==
  [req EXCEPT ![r] = [op |-> op, pc |-> "done", id |-> id, payload |-> body,
                      existing |-> NULL, publishedAt |-> NULL,
                      response |-> Reply(code, data)]]

\* the same after an await
Rejected(r, code) == Replied(r, req[r].op, req[r].id, EmptyBody, code, <<>>)

\* the response after the handler's write; the request stays readable as
\* the last one that wrote
Finished(r, code) ==
  [req EXCEPT ![r].pc = "done", ![r].response = Reply(code, <<>>)]

\* GET /tree
GetTree(r) ==
  /\ Accepts(r)
  /\ req' = Replied(r, "tree", 0, EmptyBody, 200, buildTree(OrderBy(docs)))
  /\ UNCHANGED <<statsVars, docs, nextId, now>>

\* POST /, lines 168-187: the payload, the parent
PostValidate(r, body) ==
  /\ Accepts(r)
  /\ nextId + Cardinality({q \in InFlight : req[q].op = "post"}) <= MaxDocs
  /\ LET slug == normalizeSlug(body.slug)
         parent_id == IF IsUndefined(body.parent_id) THEN 0 ELSE body.parent_id[1]
         status == IF IsUndefined(body.status) THEN "draft" ELSE body.status[1]
         type == IF IsUndefined(body.type) THEN "doc" ELSE body.type[1]
         payload == Body(body.title, Given(slug), Given(parent_id), Given(type),
                         Given(status))
         parents == RowsWithId(parent_id)
         rejected ==
           \/ slug = <<>>
           \/ parent_id # 0 /\ parents = {}
           \/ parent_id # 0 /\ \E d \in parents : d.type # "folder"
           \/ type = "folder" /\ parent_id # 0
     IN req' = IF rejected THEN Replied(r, "post", 0, EmptyBody, 400, <<>>)
               ELSE Started(r, "post", "post_slug", 0, payload)
  /\ UNCHANGED <<statsVars, docs, nextId, now>>

\* variant: a timestamp whatever the status
PublishedAtOnCreateAlways(status, date) == Some(date)

\* payload.status === 'published' ? new Date() : null
PublishedAtOnCreate(status, date) ==
  IF status = "published" THEN Some(date) ELSE NULL

\* lines 189-198: the slug, publishedAt
PostCheckSlug(r) ==
  /\ req[r].pc = "post_slug"
  /\ LET payload == req[r].payload
         exists == RowsWithSlug(payload.slug[1])
         publishedAt == PublishedAtOnCreate(payload.status[1], now)
     IN IF exists # {}
          THEN /\ req' = Rejected(r, 400)
               /\ now' = now
          ELSE /\ req' = [req EXCEPT ![r].pc = "post_insert",
                                     ![r].publishedAt = publishedAt]
               /\ now' = IF publishedAt = Some(now) THEN now + 1 ELSE now
  /\ UNCHANGED <<statsVars, docs, nextId>>

\* lines 200-225: the INSERT; lines 226-229 when a unique index refuses it
PostInsert(r) ==
  /\ req[r].pc = "post_insert"
  /\ LET payload == req[r].payload
         parent_id == payload.parent_id[1]
         row == DocRow(nextId, payload.title[1], payload.slug[1],
                       IF parent_id # 0 THEN Some(parent_id) ELSE NULL,
                       payload.type[1], payload.status[1], req[r].publishedAt)
     IN \/ /\ docs' = docs \cup {row}
           /\ nextId' = nextId + 1
           /\ req' = Finished(r, 201)
        \/ /\ RowsWithSlug(payload.slug[1]) # {}
           /\ req' = Finished(r, 500)
           /\ UNCHANGED <<docs, nextId>>
  /\ UNCHANGED <<statsVars, now>>

\* PUT /:id, lines 242-250: the row to update
PutSelectExisting(r, id, body) ==
  /\ Accepts(r)
  /\ LET existingRows == RowsWithId(id)
     IN req' = IF existingRows = {} THEN Replied(r, "put", id, EmptyBody, 404, <<>>)
               ELSE [Started(r, "put", "put_slug", id, body) EXCEPT
                       ![r].existing = Some(CHOOSE d \in existingRows : TRUE)]
  /\ UNCHANGED <<statsVars, docs, nextId, now>>

\* lines 252-257: the slug, when the body has one
PutCheckSlug(r) ==
  /\ req[r].pc = "put_slug"
  /\ LET payload == req[r].payload
         slug == normalizeSlug(payload.slug)
         conflicts == {d \in RowsWithSlug(slug) : d.id # req[r].id}
     IN req' = IF IsUndefined(payload.slug)
                 THEN [req EXCEPT ![r].pc = "put_parent"]
               ELSE IF slug = <<>> \/ conflicts # {} THEN Rejected(r, 400)
               ELSE [req EXCEPT ![r].pc = "put_parent",
                                ![r].payload.slug = Given(slug)]
  /\ UNCHANGED <<statsVars, docs, nextId, now>>

\* variant: a new timestamp at every publication
PublishedAtOnUpdateRenewed(existing, status, date) ==
  IF IsUndefined(status) THEN existing.published_at
  ELSE IF status[1] = "published" THEN Some(date)
  ELSE IF status[1] = "draft" THEN NULL
  ELSE existing.published_at

\* lines 291-295
PublishedAtOnUpdate(existing, status, date) ==
  IF IsUndefined(status) THEN existing.published_at
  ELSE IF status[1] = "published" /\ existing.published_at = NULL THEN Some(date)
  ELSE IF status[1] = "draft" THEN NULL
  ELSE existing.published_at

\* variant: a doc may be given itself as parent
IsOwnParentAllowed(payload, id) == FALSE

\* Number(payload.parent_id) === Number(id), Number(null) being 0
IsOwnParent(payload, id) ==
  ~IsUndefined(payload.parent_id) /\ payload.parent_id[1] = id

\* lines 259-317: the parent, the type, the fields to write, publishedAt
PutCheckParent(r) ==
  /\ req[r].pc = "put_parent"
  /\ LET payload == req[r].payload
         existing == req[r].existing[1]
         parent_id == IF IsUndefined(payload.parent_id) THEN 0
                      ELSE payload.parent_id[1]
         parents == RowsWithId(parent_id)
         nextType == IF IsUndefined(payload.type) THEN existing.type
                     ELSE payload.type[1]
         updates == {f \in {"title", "slug", "parent_id", "status", "type"} :
                       ~IsUndefined(payload[f])}
         publishedAt == PublishedAtOnUpdate(existing, payload.status, now)
         rejected ==
           \/ IsOwnParent(payload, req[r].id)
           \/ parent_id # 0 /\ parents = {}
           \/ parent_id # 0 /\ \E d \in parents : d.type # "folder"
           \/ nextType = "folder" /\ (parent_id # 0 \/ existing.parent_id # NULL)
           \/ updates = {}
     IN IF rejected
          THEN /\ req' = Rejected(r, 400)
               /\ now' = now
          ELSE /\ req' = [req EXCEPT ![r].pc = "put_update",
                                     ![r].publishedAt = publishedAt]
               /\ now' = IF publishedAt = Some(now) THEN now + 1 ELSE now
  /\ UNCHANGED <<statsVars, docs, nextId>>

\* the row d after UPDATE docs SET <the fields of the body>, published_at
UpdatedRow(d, payload, publishedAt) ==
  [d EXCEPT
     !.title = IF IsUndefined(payload.title) THEN @ ELSE payload.title[1],
     !.slug = IF IsUndefined(payload.slug) THEN @ ELSE payload.slug[1],
     !.parent_id = IF IsUndefined(payload.parent_id) THEN @
                   ELSE IF payload.parent_id[1] # 0
                     THEN Some(payload.parent_id[1])
                   ELSE NULL,
     !.status = IF IsUndefined(payload.status) THEN @ ELSE payload.status[1],
     !.type = IF IsUndefined(payload.type) THEN @ ELSE payload.type[1],
     !.published_at = publishedAt]

\* lines 319-321: the UPDATE; lines 322-325 when a unique index refuses it
PutUpdate(r) ==
  /\ req[r].pc = "put_update"
  /\ LET payload == req[r].payload
         rows == RowsWithId(req[r].id)
     IN \/ /\ docs' = (docs \ rows)
                        \cup {UpdatedRow(d, payload, req[r].publishedAt) : d \in rows}
           /\ req' = Finished(r, 200)
        \/ /\ rows # {}
           /\ ~IsUndefined(payload.slug)
           /\ \E d \in RowsWithSlug(payload.slug[1]) : d.id # req[r].id
           /\ req' = Finished(r, 500)
           /\ docs' = docs
  /\ UNCHANGED <<statsVars, nextId, now>>

\* DELETE /:id, lines 337-340
DeleteSelectExisting(r, id) ==
  /\ Accepts(r)
  /\ req' = IF RowsWithId(id) = {} THEN Replied(r, "delete", id, EmptyBody, 404, <<>>)
            ELSE Started(r, "delete", "delete_row", id, EmptyBody)
  /\ UNCHANGED <<statsVars, docs, nextId, now>>

\* the rows below the row id, through parent_id, in at most n steps
RECURSIVE RowsBelow(_, _)
RowsBelow(ids, n) ==
  IF n = 0 THEN {}
  ELSE LET children == {d \in docs : d.parent_id # NULL /\ d.parent_id[1] \in ids}
       IN children \cup RowsBelow({d.id : d \in children}, n - 1)

\* lines 342-344: the DELETE. The rows that refer to the deleted one are left
\* as they are, set to NULL or deleted with it, or the DELETE is refused
\* (lines 345-348), as the parent_id column is declared.
DeleteRow(r) ==
  /\ req[r].pc = "delete_row"
  /\ LET rows == RowsWithId(req[r].id)
         children == RowsBelow({req[r].id}, 1)
     IN \/ /\ docs' = docs \ rows
           /\ req' = Finished(r, 200)
        \/ /\ children # {}
           /\ docs' = ((docs \ rows) \ children)
                        \cup {[d EXCEPT !.parent_id = NULL] : d \in children}
           /\ req' = Finished(r, 200)
        \/ /\ children # {}
           /\ docs' = (docs \ rows) \ RowsBelow({req[r].id}, MaxDocs)
           /\ req' = Finished(r, 200)
        \/ /\ children # {}
           /\ docs' = docs
           /\ req' = Finished(r, 500)
  /\ UNCHANGED <<statsVars, nextId, now>>

\* the steps of the requests in flight
DocStep ==
  \E r \in DocRequests :
    \/ PostCheckSlug(r)
    \/ PostInsert(r)
    \/ PutCheckSlug(r)
    \/ PutCheckParent(r)
    \/ PutUpdate(r)
    \/ DeleteRow(r)

----------------------------------------------------------------------------
(* The document centre: the requests *)

\* slugs as they are typed: a, b, c; " /A/" (the slug a) and "/" (no slug)
PlainSlugs == {<<"a">>, <<"b">>, <<"c">>}

RawSlugs == PlainSlugs \cup {<<" ", "/", "A", "/">>, <<"/">>}

DocIds == 1..MaxDocs

\* the bodies of POST / that place a doc or a folder: a parent or none, the
\* type by default or given, a slug or none
CreateBodies ==
  {Body(Given("t"), Given(s), q[1], q[2], Undefined) :
     s \in PlainSlugs \cup {<<"/">>},
     q \in {Undefined, Given(1), Given(2)} \X {Undefined, Given("folder")}}
    \cup {Body(Given("t"), Undefined, Undefined, Undefined, Undefined),
          Body(Given("t"), Given(<<"a">>), Given(0), Given("doc"), Given("draft"))}

\* the bodies of PUT /:id that move or retype a doc: no field, a title, a
\* slug, a parent, a type, a type with a parent
UpdateBodies ==
  {EmptyBody,
   Body(Given("t"), Undefined, Undefined, Undefined, Undefined),
   Body(Undefined, Given(<<"a">>), Undefined, Undefined, Undefined)}
    \cup {Body(Undefined, Undefined, Given(p), Undefined, Undefined) :
            p \in {0} \cup DocIds}
    \cup {Body(Undefined, Undefined, Undefined, Given(t), Undefined) :
            t \in {"doc", "folder"}}
    \cup {Body(Undefined, Undefined, Given(p), Given("doc"), Undefined) :
            p \in {0} \cup DocIds}
    \cup {Body(Undefined, Undefined, Given(0), Given("folder"), Undefined)}

\* the bodies that set a status: on creation by default or given, on update
\* alone; an update of the title only
StatusCreateBodies ==
  {Body(Given("t"), Given(s), Undefined, q[1], q[2]) :
     s \in PlainSlugs,
     q \in {Undefined, Given("folder")}
             \X {Undefined, Given("draft"), Given("published")}}

StatusUpdateBodies ==
  {Body(Given("t"), Undefined, Undefined, Undefined, Undefined)}
    \cup {Body(Undefined, Undefined, Undefined, Undefined, Given(st)) :
            st \in {"draft", "published"}}

\* the bodies of two requests that compete for a slug
SlugBodies ==
  {Body(Given("t"), Given(s), Undefined, Undefined, Undefined) :
     s \in {<<"a">>, <<" ", "/", "A", "/">>, <<"b">>}}

SlugUpdateBodies ==
  {Body(Undefined, Given(s), Undefined, Undefined, Undefined) :
     s \in {<<"a">>, <<" ", "/", "A", "/">>, <<"b">>}}

\* no other request is in flight
Alone == InFlight = {}

\* one request at a time, each finished before the next starts
CreateDoc == Alone /\ \E body \in CreateBodies : PostValidate(1, body)

UpdateDoc ==
  Alone /\ \E id \in DocIds, body \in UpdateBodies : PutSelectExisting(1, id, body)

DeleteDoc == Alone /\ \E id \in DocIds : DeleteSelectExisting(1, id)

ReadTree == Alone /\ GetTree(1)

NextDocs == CreateDoc \/ UpdateDoc \/ DeleteDoc \/ ReadTree \/ DocStep

SpecDocs == Init /\ [][NextDocs]_vars

\* one request at a time, of those that set a status
CreateDocWithStatus ==
  Alone /\ \E body \in StatusCreateBodies : PostValidate(1, body)

UpdateDocStatus ==
  Alone /\ \E id \in DocIds, body \in StatusUpdateBodies :
             PutSelectExisting(1, id, body)

NextDocsStatus == CreateDocWithStatus \/ UpdateDocStatus \/ DeleteDoc \/ DocStep

SpecDocsStatus == Init /\ [][NextDocsStatus]_vars

\* two requests in flight, each taking its steps between the other's
CreateDocConcurrent ==
  \E r \in DocRequests, body \in SlugBodies : PostValidate(r, body)

UpdateDocConcurrent ==
  \E r \in DocRequests, id \in DocIds, body \in SlugUpdateBodies :
    PutSelectExisting(r, id, body)

DeleteDocConcurrent ==
  \E r \in DocRequests, id \in DocIds : DeleteSelectExisting(r, id)

NextDocsConcurrent ==
  CreateDocConcurrent \/ UpdateDocConcurrent \/ DeleteDocConcurrent \/ DocStep

SpecDocsConcurrent == Init /\ [][NextDocsConcurrent]_vars

----------------------------------------------------------------------------
(* Properties of pass 1 *)

\* the events before the n-th that have the n-th event's visitor
EarlierOfVisitor(n) ==
  {m \in 1..(n - 1) : events[m].visitor_id = events[n].visitor_id}

\* the visitor's previous event
PreviousOfVisitor(n) ==
  CHOOSE m \in EarlierOfVisitor(n) : \A o \in EarlierOfVisitor(n) : o <= m

\* the time from the visitor's previous event to the n-th event
GapBefore(n) == events[n].created_ms - events[PreviousOfVisitor(n)].created_ms

\* the session index at the end of an event's session_id
SessionIndexOfEvent(e) ==
  CHOOSE k \in 0..(Len(viewRows) + 1) :
    e.session_id = e.visitor_id \o "-" \o ToString(k)

\* C1: in time-ascending input an event starts a new session (index + 1) if
\* and only if it is its visitor's first event or comes more than
\* 1,800,000 ms after that visitor's previous event; 1801 s apart gives
\* indices 1 and 2, 1800 s apart the same index.
C1_IdleGapSplitting ==
  \A n \in DOMAIN events :
    IF EarlierOfVisitor(n) = {}
      THEN SessionIndexOfEvent(events[n]) = 1
      ELSE LET before == SessionIndexOfEvent(events[PreviousOfVisitor(n)])
           IN /\ GapBefore(n) > 1800000
                   => SessionIndexOfEvent(events[n]) = before + 1
              /\ GapBefore(n) <= 1800000
                   => SessionIndexOfEvent(events[n]) = before

\* two events of one visitor 1801 s apart, with session indices 1 and 2
C1_Witness ==
  /\ pc = "done"
  /\ \E n \in DOMAIN events :
       /\ EarlierOfVisitor(n) # {}
       /\ GapBefore(n) = 1801000
       /\ SessionIndexOfEvent(events[PreviousOfVisitor(n)]) = 1
       /\ SessionIndexOfEvent(events[n]) = 2

\* C2: each session is a contiguous run of one visitor's events: two
\* consecutive events of a visitor with the same session_id are at most 30
\* minutes apart, two with different session_ids more than 30 minutes
\* apart, and no event of another session of that visitor lies in between
\* two events of one session.
C2_SessionsAreMaximalRuns ==
  /\ \A n \in DOMAIN events :
       EarlierOfVisitor(n) # {} =>
         (events[n].session_id = events[PreviousOfVisitor(n)].session_id
            <=> GapBefore(n) <= 30 * 60 * 1000)
  /\ \A a, b, c \in DOMAIN events :
       /\ a < b /\ b < c
       /\ events[a].visitor_id = events[b].visitor_id
       /\ events[a].session_id = events[c].session_id
       => events[b].session_id = events[a].session_id
  /\ \A a, b \in DOMAIN events :
       events[a].session_id = events[b].session_id
         => events[a].visitor_id = events[b].visitor_id

\* a visitor with two events in one session and a third in the next one
C2_Witness ==
  /\ pc = "done"
  /\ \E a, b, c \in DOMAIN events :
       /\ EarlierOfVisitor(b) # {} /\ EarlierOfVisitor(c) # {}
       /\ a = PreviousOfVisitor(b) /\ b = PreviousOfVisitor(c)
       /\ events[a].session_id = events[b].session_id
       /\ events[b].session_id # events[c].session_id

\* the visitor key the precedence rule gives a row
ExpectedVisitorKey(row) ==
  CASE row.user_id # NULL -> ToString(row.user_id[1])
    [] row.user_id = NULL /\ row.ip_address # NULL -> row.ip_address[1]
    [] row.user_id = NULL /\ row.ip_address = NULL /\ row.user_agent # NULL ->
         "ua:" \o SubSeq(MD5Hex(row.user_agent[1]), 1, 12)
    [] OTHER -> "unknown"

\* C3: the visitor key is the stringified user id if present, else the ip
\* address if present, else "ua:" and 12 characters of the hash of the
\* user agent if present, else "unknown"; a row with user id 42 and
\* address 1.2.3.4 has the key "42".
C3_VisitorKeyPrecedence ==
  \A n \in DOMAIN events :
    /\ events[n].visitor_id = ExpectedVisitorKey(viewRows[n])
    /\ viewRows[n].user_id = Some(42) => events[n].visitor_id = "42"
    /\ viewRows[n].user_id = NULL /\ viewRows[n].ip_address = Some("1.2.3.4")
         => events[n].visitor_id = "1.2.3.4"
    /\ viewRows[n].user_id = NULL /\ viewRows[n].ip_address = NULL
         /\ viewRows[n].user_agent # NULL
         => /\ Len(events[n].visitor_id) = 15
            /\ SubSeq(events[n].visitor_id, 1, 3) = "ua:"
    /\ viewRows[n].user_id = NULL /\ viewRows[n].ip_address = NULL
         /\ viewRows[n].user_agent = NULL
         => events[n].visitor_id = "unknown"

\* a row with both a user id and an address, keyed by the user id
C3_Witness ==
  /\ pc = "done"
  /\ \E n \in DOMAIN events :
       /\ viewRows[n].user_id = Some(42)
       /\ viewRows[n].ip_address = Some("1.2.3.4")
       /\ events[n].visitor_id = "42"

----------------------------------------------------------------------------
(* Properties of pass 2 *)

\* the n-th event metric has a successor in its session
HasSuccessor(n) ==
  /\ n + 1 <= Len(eventMetrics)
  /\ eventMetrics[n + 1].session_id = eventMetrics[n].session_id

\* the time from the n-th event metric to the next one
GapAfter(n) == eventMetrics[n + 1].created_ms - eventMetrics[n].created_ms

\* round(ms / 1000) clamped to 1..1800, for ms >= 0
ClampedSeconds(ms) ==
  LET rounded == (ms + 500) \div 1000
  IN IF rounded < 1 THEN 1 ELSE IF rounded > 1800 THEN 1800 ELSE rounded

\* the events of a session follow one another in eventMetrics, in time order
SessionsAreBlocks ==
  /\ \A a, b, c \in DOMAIN eventMetrics :
       /\ a < b /\ b < c
       /\ eventMetrics[a].session_id = eventMetrics[c].session_id
       => eventMetrics[b].session_id = eventMetrics[a].session_id
  /\ \A n \in DOMAIN eventMetrics : HasSuccessor(n) => GapAfter(n) >= 0

\* C4: an event with a successor in its session has the duration
\* round((next - current) / 1000) clamped to 1..1800; a gap of 5000 s gives
\* 1800, two events of the same millisecond give 1.
C4_DurationClamped ==
  /\ SessionsAreBlocks
  /\ \A n \in DOMAIN eventMetrics :
       HasSuccessor(n) =>
         /\ eventMetrics[n].duration_seconds = ClampedSeconds(GapAfter(n))
         /\ GapAfter(n) = 5000000 => eventMetrics[n].duration_seconds = 1800
         /\ GapAfter(n) = 0 => eventMetrics[n].duration_seconds = 1

\* two events of one session 5000 s apart, the earlier one with 1800
C4_Witness ==
  /\ pc = "done"
  /\ \E n \in DOMAIN eventMetrics :
       /\ HasSuccessor(n)
       /\ GapAfter(n) = 5000000
       /\ eventMetrics[n].duration_seconds = 1800

\* C5: the last event of a session has the duration 30 whatever the gaps
\* before it, and an event with a successor has 30 only if its clamped gap
\* is 30.
C5_LastEventFallback ==
  /\ SessionsAreBlocks
  /\ \A n \in DOMAIN eventMetrics :
       /\ ~HasSuccessor(n) => eventMetrics[n].duration_seconds = 30
       /\ HasSuccessor(n) /\ eventMetrics[n].duration_seconds = 30
            => ClampedSeconds(GapAfter(n)) = 30

\* a session of three events: the gaps before the last one differ from 30 s
\* in one case and round to 30 s in the other
C5_Witness ==
  /\ pc = "done"
  /\ \E n \in DOMAIN eventMetrics :
       /\ HasSuccessor(n) /\ HasSuccessor(n + 1) /\ ~HasSuccessor(n + 2)
       /\ eventMetrics[n].duration_seconds = 30
       /\ eventMetrics[n + 1].duration_seconds = 1771
       /\ eventMetrics[n + 2].duration_seconds = 30

----------------------------------------------------------------------------
(* Properties of the aggregation *)

\* the totals have been computed
SummaryReady == pc \in {"fetchPages", "respond", "done"}

\* the session ids assigned in pass 1
SessionIds == {events[n].session_id : n \in DOMAIN events}

\* the number of events of a session
PageViewsOfSession(sid) ==
  Cardinality({n \in DOMAIN events : events[n].session_id = sid})

\* the sessions of exactly one page view
BouncedSessions == {sid \in SessionIds : PageViewsOfSession(sid) = 1}

\* C6: bounceRatio is the number of sessions of exactly one page view
\* divided by the number of sessions, and 0 when there is no session; one
\* such session among 3 gives 1/3.
C6_BounceRatio ==
  SummaryReady =>
    /\ SessionIds = {} => summary.bounce_ratio = [num |-> 0, den |-> 1]
    /\ SessionIds # {} =>
         /\ summary.bounce_ratio.den > 0
         /\ summary.bounce_ratio.num * Cardinality(SessionIds)
              = Cardinality(BouncedSessions) * summary.bounce_ratio.den
    /\ Cardinality(SessionIds) = 3 /\ Cardinality(BouncedSessions) = 1
         => summary.bounce_ratio = [num |-> 1, den |-> 3]

\* three sessions, one of a single page view and two of several
C6_Witness ==
  /\ pc = "done"
  /\ Cardinality(SessionIds) = 3
  /\ Cardinality(BouncedSessions) = 1
  /\ \A sid \in SessionIds \ BouncedSessions : PageViewsOfSession(sid) > 1
  /\ summary.bounce_ratio = [num |-> 1, den |-> 3]

\* the number of events on a page
ViewsOfPage(id) ==
  Cardinality({n \in DOMAIN events : events[n].resource_id = id})

\* the page details carrying a catalog page's title (the titles of the
\* catalogs are distinct)
DetailsOfPage(p) == {d \in DOMAIN pageDetails : pageDetails[d].title = p.title}

AllZero(detail) ==
  /\ detail.views = 0
  /\ detail.unique_visitors = 0
  /\ detail.avg_time = [num |-> 0, den |-> 1]
  /\ detail.bounce_rate = 0

\* every catalog page is in pageDetails, one without events with zeros
EveryPageRepresented ==
  \A n \in DOMAIN pages :
    /\ DetailsOfPage(pages[n]) # {}
    /\ ViewsOfPage(pages[n].id) = 0
         => \A d \in DetailsOfPage(pages[n]) : AllZero(pageDetails[d])

\* C7, as claimed: every page of the catalog is represented in pageDetails,
\* a page with no matching event with views, uniqueVisitors, avgTime and
\* bounceRate 0.
C7_EveryCatalogPageListed == pc = "done" => EveryPageRepresented

\* C7, amended: when the catalog has at most 20 pages every page of it is in
\* pageDetails, and a catalog page with no matching event that is in
\* pageDetails has views, uniqueVisitors, avgTime and bounceRate 0; of a
\* larger catalog only 20 pages are listed.
C7_CatalogPagesListedUpToLimit ==
  pc = "done" =>
    /\ Len(pages) <= 20 => EveryPageRepresented
    /\ Len(pages) > 20 => Len(pageDetails) = 20
    /\ \A n \in DOMAIN pages :
         ViewsOfPage(pages[n].id) = 0
           => \A d \in DetailsOfPage(pages[n]) : AllZero(pageDetails[d])

\* a batch with events, and a catalog page none of them is on, listed with
\* zeros
C7_Witness ==
  /\ pc = "done"
  /\ Len(events) > 0
  /\ Len(pages) <= 20
  /\ \E n \in DOMAIN pages :
       /\ ViewsOfPage(pages[n].id) = 0
       /\ \E d \in DetailsOfPage(pages[n]) : AllZero(pageDetails[d])

\* C8: pageDetails is ordered by views descending and, among pages of
\* equal views, by the catalog's updated_at descending.
C8_PageDetailsOrder ==
  pc = "done" =>
    \A a, b \in DOMAIN pageDetails :
      a < b =>
        \/ pageDetails[a].views > pageDetails[b].views
        \/ /\ pageDetails[a].views = pageDetails[b].views
           /\ pageDetails[a].updated_at >= pageDetails[b].updated_at

\* two pages of equal views: the catalog returns the older one first and
\* pageDetails lists the newer one first
C8_Witness ==
  /\ pc = "done"
  /\ Len(pages) = 2
  /\ Len(pageDetails) = 2
  /\ pageDetails[1].views = pageDetails[2].views
  /\ pageDetails[1].views > 0
  /\ pageDetails[1].updated_at > pageDetails[2].updated_at
  /\ pages[1].title = pageDetails[2].title

\* C9: pageDetails has min(20, number of catalog pages) entries, and every
\* catalog page left out has at most the views of every page kept.
C9_TopTwenty ==
  pc = "done" =>
    /\ Len(pageDetails) = (IF Len(pages) < 20 THEN Len(pages) ELSE 20)
    /\ \A n \in DOMAIN pages :
         DetailsOfPage(pages[n]) = {}
           => \A d \in DOMAIN pageDetails :
                ViewsOfPage(pages[n].id) <= pageDetails[d].views

\* a catalog of more than 20 pages, cut to 20, the viewed pages kept
C9_Witness ==
  /\ pc = "done"
  /\ Len(pages) > 20
  /\ Len(pageDetails) = 20
  /\ pageDetails[1].views > 0
  /\ \E n \in DOMAIN pages : DetailsOfPage(pages[n]) = {}

\* C10: for u1 on p1 at 0 s, 100 s, 2000 s, 2100 s and u2 on p2 at 50 s
\* there are 3 sessions (u1-1 and u1-2 of 2 events, u2-1 of 1 event), 5 page
\* views, 2 unique visitors, 1 single-page session and a bounce ratio of
\* 1/3.
C10_EndToEndScenario ==
  SummaryReady /\ viewRows = ScenarioRows =>
    /\ summary.total_sessions = 3
    /\ summary.total_page_views = 5
    /\ summary.unique_visitors = 2
    /\ summary.single_page_sessions = 1
    /\ summary.bounce_ratio = [num |-> 1, den |-> 3]
    /\ {sessionPageCounts[n] : n \in DOMAIN sessionPageCounts}
         = {[k |-> "u1-1", v |-> 2], [k |-> "u1-2", v |-> 2],
            [k |-> "u2-1", v |-> 1]}
    /\ \A sid \in {"u1-1", "u1-2", "u2-1"} :
         Cardinality({n \in DOMAIN eventMetrics :
                        eventMetrics[n].session_id = sid})
           = MapGet(sessionPageCounts, sid)

\* the scenario has been answered
C10_Witness ==
  /\ pc = "done"
  /\ viewRows = ScenarioRows
  /\ response.status = 200
  /\ response.metrics.totalVisits = 3

----------------------------------------------------------------------------
(* Further properties of the reconstruction *)

\* C11: with zero events the computation completes, eventMetrics and
\* sessionPageCounts are empty and totalSessions, totalPageViews,
\* uniqueVisitors, avgDurationSeconds and bounceRatio are all 0.
C11_EmptyInputGivesZeros ==
  /\ SummaryReady /\ viewRows = <<>> =>
       /\ eventMetrics = <<>>
       /\ sessionPageCounts = <<>>
       /\ summary.total_sessions = 0
       /\ summary.total_page_views = 0
       /\ summary.unique_visitors = 0
       /\ summary.avg_duration_seconds = [num |-> 0, den |-> 1]
       /\ summary.bounce_ratio = [num |-> 0, den |-> 1]
  /\ pc = "done" /\ viewRows = <<>> =>
       /\ response.status = 200
       /\ response.metrics =
            [totalVisits |-> 0, uniqueVisitors |-> 0, pageViews |-> 0,
             avgTimeOnPage |-> "0:00", bounceRate |-> 0]
       /\ \A d \in DOMAIN pageDetails : AllZero(pageDetails[d])

\* a request answered for no event and a catalog of pages
C11_Witness ==
  /\ pc = "done"
  /\ viewRows = <<>>
  /\ response.status = 200
  /\ Len(pageDetails) > 0

\* the visitor keys of the events
VisitorKeys == {events[n].visitor_id : n \in DOMAIN events}

\* the session indices used for a visitor key
IndicesOfVisitor(v) ==
  {SessionIndexOfEvent(events[n]) : n \in {m \in DOMAIN events : events[m].visitor_id = v}}

\* C16: the session indices used for one visitor key are exactly 1..k for a
\* k >= 1, and along the input order a visitor's index never decreases.
C16_SessionIndicesFromOne ==
  /\ \A v \in VisitorKeys :
       \E k \in 1..Len(events) : IndicesOfVisitor(v) = 1..k
  /\ \A n \in DOMAIN events :
       EarlierOfVisitor(n) # {} =>
         SessionIndexOfEvent(events[n])
           >= SessionIndexOfEvent(events[PreviousOfVisitor(n)])

\* a visitor with the indices 1, 1, 2 and another with the index 1 only
C16_Witness ==
  /\ pc = "done"
  /\ Len(events) = 5
  /\ \E v, w \in VisitorKeys :
       /\ IndicesOfVisitor(v) = {1, 2}
       /\ IndicesOfVisitor(w) = {1}

\* resourceId, visitorKey and sessionId of an event or an event metric
Triple(e) == <<e.resource_id, e.visitor_id, e.session_id>>

CountIn(seq, t) == Cardinality({n \in DOMAIN seq : Triple(seq[n]) = t})

\* C17: eventMetrics holds exactly one entry per input event, with the
\* resourceId, visitorKey and sessionId of pass 1, so totalPageViews is the
\* number of input events.
C17_EventMetricsComplete ==
  SummaryReady =>
    /\ Len(eventMetrics) = Len(viewRows)
    /\ Len(events) = Len(viewRows)
    /\ \A n \in DOMAIN events :
         CountIn(eventMetrics, Triple(events[n])) = CountIn(events, Triple(events[n]))
    /\ summary.total_page_views = Len(viewRows)

\* a session of two events on the same page, and another session
C17_Witness ==
  /\ pc = "done"
  /\ Len(viewRows) = 3
  /\ \E n \in DOMAIN events : CountIn(eventMetrics, Triple(events[n])) = 2
  /\ summary.total_page_views = 3
  /\ summary.total_sessions = 2

\* C18: totalSessions is the number of distinct sessionIds among the
\* emitted events and uniqueVisitors the number of distinct visitor keys.
C18_DistinctCounts ==
  SummaryReady =>
    /\ summary.total_sessions
         = Cardinality({eventMetrics[n].session_id : n \in DOMAIN eventMetrics})
    /\ summary.unique_visitors
         = Cardinality({eventMetrics[n].visitor_id : n \in DOMAIN eventMetrics})

\* more sessions than visitors, more events than sessions
C18_Witness ==
  /\ pc = "done"
  /\ summary.unique_visitors = 2
  /\ summary.total_sessions = 3
  /\ Len(eventMetrics) = 5

RECURSIVE TotalDuration(_)
TotalDuration(n) ==
  IF n = 0 THEN 0 ELSE TotalDuration(n - 1) + eventMetrics[n].duration_seconds

\* C19: avgDurationSeconds is the sum of durationSeconds over the emitted
\* events divided by totalPageViews, 0 when there is no event, and between
\* 1 and 1800 otherwise.
C19_AverageDuration ==
  SummaryReady =>
    LET avg == summary.avg_duration_seconds
    IN /\ avg.den > 0
       /\ Len(eventMetrics) = 0 => avg.num = 0
       /\ Len(eventMetrics) > 0 =>
            /\ avg.num * Len(eventMetrics) = TotalDuration(Len(eventMetrics)) * avg.den
            /\ avg.den <= avg.num
            /\ avg.num <= 1800 * avg.den

\* an average that is not a whole number of seconds
C19_Witness ==
  /\ pc = "done"
  /\ Len(eventMetrics) = 3
  /\ summary.avg_duration_seconds.den = 3

\* the distinct visitor keys among the events on a page
VisitorsOfPage(id) ==
  {events[n].visitor_id : n \in {m \in DOMAIN events : events[m].resource_id = id}}

\* the events on a page whose session holds exactly one event
BounceHitsOfPage(id) ==
  Cardinality({n \in DOMAIN events :
                 /\ events[n].resource_id = id
                 /\ events[n].session_id \in BouncedSessions})

\* views, uniqueVisitors and the range of bounceRate of every listed page
PageCountsExact ==
  pc = "done" =>
    \A p \in {pages[n] : n \in DOMAIN pages} :
      \A d \in DetailsOfPage(p) :
        /\ pageDetails[d].views = ViewsOfPage(p.id)
        /\ pageDetails[d].unique_visitors = Cardinality(VisitorsOfPage(p.id))
        /\ pageDetails[d].bounce_rate \in 0..100

\* C20: for each catalog page, views is the number of events on it,
\* uniqueVisitors the number of distinct visitor keys among them and
\* bounceRate = round(100 * bounceHits / views), an integer in 0..100,
\* bounceHits counting the page's events whose session holds one event.
C20_PageMetrics ==
  /\ PageCountsExact
  /\ pc = "done" =>
       \A p \in {pages[n] : n \in DOMAIN pages} :
         \A d \in DetailsOfPage(p) :
           pageDetails[d].bounce_rate =
             IF ViewsOfPage(p.id) > 0
               THEN MathRound(100 * BounceHitsOfPage(p.id), ViewsOfPage(p.id))
             ELSE 0

\* a page of 40 views, 23 of them the only view of their session
C20_Witness ==
  /\ pc = "done"
  /\ \E p \in {pages[n] : n \in DOMAIN pages} :
       /\ DetailsOfPage(p) # {}
       /\ ViewsOfPage(p.id) = 40
       /\ BounceHitsOfPage(p.id) = 23
       /\ Cardinality(VisitorsOfPage(p.id)) = 24

\* the rows sorted by created_at, rows of equal time in their input order
RECURSIVE InsertRow(_, _)
InsertRow(x, s) ==
  IF s = <<>> THEN <<x>>
  ELSE IF Head(s).created_at > x.created_at THEN <<x>> \o s
       ELSE <<Head(s)>> \o InsertRow(x, Tail(s))

RECURSIVE TimeAscending(_)
TimeAscending(rows) ==
  IF rows = <<>> THEN <<>>
  ELSE InsertRow(rows[Len(rows)], TimeAscending(SubSeq(rows, 1, Len(rows) - 1)))

\* which event got which session
SessionAssignment(evts) ==
  {<<evts[n].resource_id, evts[n].visitor_id, evts[n].created_ms,
     evts[n].session_id>> : n \in DOMAIN evts}

MapEntries(m) == {m[n] : n \in DOMAIN m}

\* session assignment, session page counts and summary are those of the
\* same rows taken in time-ascending order
SameAsTimeAscending ==
  LET sorted == ReconstructOf(TimeAscending(viewRows))
  IN /\ SessionAssignment(events) = SessionAssignment(sorted.events)
     /\ MapEntries(sessionPageCounts) = MapEntries(sorted.sessionPageCounts)
     /\ summary = sorted.summary

\* each visitor's rows are in non-decreasing time order
EachVisitorAscending ==
  \A n, m \in DOMAIN viewRows :
    /\ n < m
    /\ ExpectedVisitorKey(viewRows[n]) = ExpectedVisitorKey(viewRows[m])
    => viewRows[n].created_at <= viewRows[m].created_at

HasRun(r) == pc[r] \in {"fetchPages", "done"}

\* the session index the n-th row of request r gets when the request is
\* alone: one more than the gaps of over 30 minutes between consecutive
\* rows of its visitor up to n
AloneSessionIndex(r, n) ==
  LET key == ExpectedVisitorKey(viewRows[r][n])
      own == {m \in 1..n : ExpectedVisitorKey(viewRows[r][m]) = key}
      prev(m) == CHOOSE q \in own : q < m /\ \A o \in own : o < m => o <= q
  IN 1 + Cardinality({m \in own :
                        /\ \E q \in own : q < m
                        /\ viewRows[r][m].created_at
                             - viewRows[r][prev(m)].created_at > SessionGapMs})

\* C13: for any interleaving of two analytics requests at their awaits,
\* each request's session assignment and engagement summary are those the
\* request produces alone on its own rows.
C13_RequestsDoNotInterfere ==
  \A r \in Requests :
    HasRun(r) =>
      /\ Len(events[r]) = Len(viewRows[r])
      /\ \A n \in DOMAIN viewRows[r] :
           events[r][n].session_id =
             SessionIdOf(ExpectedVisitorKey(viewRows[r][n]), AloneSessionIndex(r, n))
      /\ events[r] = ReconstructOf(viewRows[r]).events
      /\ sessionPageCounts[r] = ReconstructOf(viewRows[r]).sessionPageCounts
      /\ summary[r] = ReconstructOf(viewRows[r]).summary

\* one request waits for its pages while the other has answered; both saw
\* the same visitor, in different numbers of sessions
C13_Witness ==
  /\ pc[1] = "fetchPages"
  /\ pc[2] = "done"
  /\ summary[1].total_sessions = 2
  /\ summary[2].total_sessions = 1
  /\ summary[1].unique_visitors = 1
  /\ \E n \in DOMAIN events[1] : \E m \in DOMAIN events[2] :
       events[1][n].visitor_id = events[2][m].visitor_id

\* C12: two runs on the same event sequence and page catalog produce the
\* same session ids, page counts, durations, summary and pageDetails.
C12_SameInputSameOutput ==
  /\ pc[1] = "done" /\ pc[2] = "done"
  /\ viewRows[1] = viewRows[2]
  /\ pages[1] = pages[2]
  => /\ events[1] = events[2]
     /\ sessionPageCounts[1] = sessionPageCounts[2]
     /\ eventMetrics[1] = eventMetrics[2]
     /\ summary[1] = summary[2]
     /\ pageDetails[1] = pageDetails[2]
     /\ response[1] = response[2]

\* two runs answered on the same two rows and the same catalog
C12_Witness ==
  /\ pc[1] = "done" /\ pc[2] = "done"
  /\ Len(viewRows[1]) = 2
  /\ viewRows[1] = viewRows[2]
  /\ pages[1] = pages[2]
  /\ Len(pageDetails[1]) = 2
  /\ pageDetails[1] = pageDetails[2]
  /\ summary[2].total_sessions = 2

\* a whole number, a quotient that is a number
IsCount(x) == x \in 0..Len(viewRows)

IsQuotient(x) == x # NotANumber /\ x.den > 0 /\ x.num >= 0

\* C15: with an event whose timestamp cannot be parsed the run still
\* completes, a session id and an event metric are emitted for every input
\* event, and the summary values returned are numbers.
C15_InvalidDateTolerated ==
  /\ SummaryReady =>
       /\ Len(events) = Len(viewRows)
       /\ \A n \in DOMAIN events :
            /\ events[n].session_id
                 \in {SessionIdOf(ExpectedVisitorKey(viewRows[n]), k) :
                        k \in 1..Len(viewRows)}
            /\ CountIn(eventMetrics, Triple(events[n])) = CountIn(events, Triple(events[n]))
       /\ Len(eventMetrics) = Len(viewRows)
       /\ IsCount(engagementSummary(summary).total_sessions)
       /\ IsCount(engagementSummary(summary).total_page_views)
       /\ IsCount(engagementSummary(summary).unique_visitors)
       /\ IsQuotient(engagementSummary(summary).avg_duration_seconds)
       /\ IsQuotient(engagementSummary(summary).bounce_ratio)
  /\ pc = "done" =>
       /\ response.status = 200
       /\ response.metrics.bounceRate \in 0..100
       /\ IsCount(response.metrics.totalVisits)
       /\ IsCount(response.metrics.pageViews)
       /\ IsCount(response.metrics.uniqueVisitors)

\* a request answered for three rows, the second with an invalid date, whose
\* average duration came out as NaN
C15_Witness ==
  /\ pc = "done"
  /\ Len(viewRows) = 3
  /\ IsNaN(viewRows[2].created_at)
  /\ summary.avg_duration_seconds = NotANumber
  /\ response.status = 200
  /\ response.metrics.avgTimeOnPage = "0:00"
  /\ Len(eventMetrics) = 3

\* the events of a visitor key seen so far
EventsOfVisitor(v) == {n \in DOMAIN events : events[n].visitor_id = v}

\* the visitor's latest event seen so far
LatestOfVisitor(v) ==
  CHOOSE n \in EventsOfVisitor(v) : \A m \in EventsOfVisitor(v) : m <= n

\* C21: a visitor's last-seen time is that of the visitor's latest event,
\* whether or not it opened a session, so an event at most 30 minutes after
\* the visitor's previous event stays in that event's session, however long
\* the session already is.
C21_GapFromPreviousEvent ==
  /\ \A e \in DOMAIN visitorState :
       /\ EventsOfVisitor(visitorState[e].k) # {}
       /\ visitorState[e].v.lastTime
            = Some(events[LatestOfVisitor(visitorState[e].k)].created_ms)
  /\ \A n \in DOMAIN events :
       EarlierOfVisitor(n) # {} /\ GapBefore(n) <= 30 * 60 * 1000
         => events[n].session_id = events[PreviousOfVisitor(n)].session_id

\* a session that spans more than 30 minutes
C21_Witness ==
  /\ pc = "done"
  /\ \E n, m \in DOMAIN events :
       /\ m < n
       /\ events[n].session_id = events[m].session_id
       /\ events[n].created_ms - events[m].created_ms > 30 * 60 * 1000

\* C22: pass 1 has finished for all events before pass 2 computes a
\* duration: in a step that leaves a duration computed every input event has
\* its session id, and once a duration is computed sessionPageCounts never
\* changes.
C22_PassOneBeforePassTwo ==
  [][/\ pc' = "pass2" \/ eventMetrics' # <<>> =>
          /\ Len(events') = Len(viewRows')
          /\ \A n \in DOMAIN events' :
               events'[n].session_id
                 \in {sessionPageCounts'[e].k : e \in DOMAIN sessionPageCounts'}
     /\ eventMetrics # <<>> => sessionPageCounts' = sessionPageCounts]_vars

\* pass 2 under way: a duration computed, a session still to come
C22_Witness ==
  /\ pc = "pass2"
  /\ eventMetrics # <<>>
  /\ j <= Len(sessionsMap)
  /\ Len(events) = 3

Grouped == pc \in {"pass2", "fetchPages", "respond", "done"}

\* the sum of the values of sessionPageCounts
SumOfPageCounts ==
  Cardinality({p \in (DOMAIN sessionPageCounts) \X (1..Len(viewRows)) :
                 p[2] <= sessionPageCounts[p[1]].v})

\* C23: the sessions partition the events: every event is in exactly one
\* session, sessionPageCounts[s] is the number of emitted events of session
\* s, and the values of sessionPageCounts sum to totalPageViews.
C23_SessionsPartitionEvents ==
  /\ \A e \in DOMAIN sessionPageCounts :
       sessionPageCounts[e].v = PageViewsOfSession(sessionPageCounts[e].k)
  /\ \A n \in DOMAIN events :
       Cardinality({e \in DOMAIN sessionPageCounts :
                      sessionPageCounts[e].k = events[n].session_id}) = 1
  /\ Grouped =>
       /\ \A n \in DOMAIN events :
            Cardinality({e \in DOMAIN sessionsMap :
                           sessionsMap[e].k = events[n].session_id}) = 1
       /\ \A e \in DOMAIN sessionsMap :
            /\ Len(sessionsMap[e].v) = PageViewsOfSession(sessionsMap[e].k)
            /\ \A q \in DOMAIN sessionsMap[e].v :
                 sessionsMap[e].v[q].session_id = sessionsMap[e].k
  /\ SummaryReady =>
       /\ \A e \in DOMAIN sessionPageCounts :
            sessionPageCounts[e].v
              = Cardinality({n \in DOMAIN eventMetrics :
                               eventMetrics[n].session_id = sessionPageCounts[e].k})
       /\ SumOfPageCounts = summary.total_page_views

\* a session of two events and a session of one
C23_Witness ==
  /\ pc = "done"
  /\ Len(sessionPageCounts) = 2
  /\ sessionPageCounts[1].v = 2
  /\ sessionPageCounts[2].v = 1
  /\ SumOfPageCounts = 3

\* C24: 0 <= singlePageSessions <= totalSessions <= totalPageViews and
\* uniqueVisitors <= totalSessions, hence 0 <= bounceRatio <= 1; and
\* totalSessions = 0 exactly when the input is empty.
C24_SummaryOrdering ==
  SummaryReady =>
    /\ 0 <= summary.single_page_sessions
    /\ summary.single_page_sessions <= summary.total_sessions
    /\ summary.total_sessions <= summary.total_page_views
    /\ summary.unique_visitors <= summary.total_sessions
    /\ summary.bounce_ratio.den > 0
    /\ 0 <= summary.bounce_ratio.num
    /\ summary.bounce_ratio.num <= summary.bounce_ratio.den
    /\ summary.total_sessions = 0 <=> viewRows = <<>>

\* every inequality strict: 1 bounced session of 2, 3 page views, 1 visitor
C24_Witness ==
  /\ pc = "done"
  /\ summary.single_page_sessions = 1
  /\ summary.total_sessions = 2
  /\ summary.total_page_views = 3
  /\ summary.unique_visitors = 1
  /\ summary.bounce_ratio = [num |-> 1, den |-> 2]

\* the value of line 416 before the cap of line 417 is applied
UncappedSeconds(n) == Max(MinDurationSec, MathRound(GapAfter(n), 1000))

\* C25: for rows in ascending time order the cap of 1800 s never changes a
\* value: two consecutive events of a session are at most 30 minutes apart,
\* so the rounded dwell time is already at most 1800.
C25_UpperClampInactive ==
  SummaryReady =>
    \A n \in DOMAIN eventMetrics :
      HasSuccessor(n) =>
        /\ UncappedSeconds(n) <= 1800
        /\ eventMetrics[n].duration_seconds = UncappedSeconds(n)

\* a dwell time of exactly 1800 s, the largest a session allows
C25_Witness ==
  /\ pc = "done"
  /\ \E n \in DOMAIN eventMetrics :
       /\ HasSuccessor(n)
       /\ GapAfter(n) = 1800000
       /\ eventMetrics[n].duration_seconds = 1800

\* rows out of time order: a gap above 1800 s inside one session, capped
C25_CapActiveWhenUnordered ==
  /\ pc = "done"
  /\ \E n \in DOMAIN eventMetrics :
       /\ HasSuccessor(n)
       /\ UncappedSeconds(n) > 1800
       /\ eventMetrics[n].duration_seconds = 1800

\* the ids of the page catalog read at lines 452-455
CatalogIds == {pages[n].id : n \in DOMAIN pages}

\* the events whose resource is a page of the catalog
CataloguedEvents == {n \in DOMAIN events : events[n].resource_id \in CatalogIds}

\* the sum of the views of all entries of pageDetails
SumOfDetailViews ==
  Cardinality({p \in (DOMAIN pageDetails) \X (1..Len(viewRows)) :
                 p[2] <= pageDetails[p[1]].views})

\* C26: the views of pageDetails sum to at most totalPageViews, with
\* equality when every event's resource is in the catalog and the catalog has
\* at most 20 pages; an event whose resource is not in the catalog counts in
\* the summary and in its session's page count and in no pageDetails entry.
C26_DetailViewsWithinTotal ==
  pc = "done" =>
    /\ SumOfDetailViews <= summary.total_page_views
    /\ CataloguedEvents = DOMAIN events /\ Len(pages) <= 20
         => SumOfDetailViews = summary.total_page_views
    /\ summary.total_page_views = Len(events)
    /\ SumOfDetailViews <= Cardinality(CataloguedEvents)
    /\ \A n \in DOMAIN events :
         events[n].resource_id \notin CatalogIds =>
           /\ MapGet(sessionPageCounts, events[n].session_id)
                = PageViewsOfSession(events[n].session_id)
           /\ \A d \in DOMAIN pageDetails :
                pageDetails[d].title # events[n].resource_id

\* two events on p1 and one on p2, a catalog of p1 only: 2 of 3 views listed
C26_Witness ==
  /\ pc = "done"
  /\ pages = <<Page("p1", 1000)>>
  /\ Len(events) = 3
  /\ Cardinality(CataloguedEvents) = 2
  /\ SumOfDetailViews = 2
  /\ summary.total_page_views = 3

----------------------------------------------------------------------------
(* Properties of the document centre *)

\* the rows a doc's parent_id refers to
ParentsOf(d) == IF d.parent_id = NULL THEN {} ELSE RowsWithId(d.parent_id[1])

\* no folder has a parent; the parent of a doc is an existing folder
HierarchyWellFormed ==
  \A d \in docs :
    /\ d.type = "folder" => d.parent_id = NULL
    /\ d.parent_id # NULL =>
         /\ ParentsOf(d) # {}
         /\ \A p \in ParentsOf(d) : p.type = "folder"

\* C27, as claimed: after any sequence of successful create, update and
\* delete requests no folder has a parent_id and every parent_id refers to
\* an existing doc of type folder.
C27_HierarchyKept == InFlight = {} => HierarchyWellFormed

\* a PUT that changed the type of a folder, answered 200, has left a doc
\* whose parent exists and is no folder
C27_Witness ==
  /\ req[1].pc = "done"
  /\ req[1].op = "put"
  /\ req[1].payload.type = Given("doc")
  /\ req[1].response = Reply(200, <<>>)
  /\ \E d \in docs :
       /\ ParentsOf(d) # {}
       /\ \A p \in ParentsOf(d) : p.type = "doc" /\ p.id = req[1].id

\* a doc that is its own ancestor through parent_id
IsOwnAncestor(d) == d \in RowsBelow({d.id}, MaxDocs)

\* the ids of the nodes of a tree, each as often as the tree holds it
RECURSIVE IdsOfNodes(_)
IdsOfNodes(nodes) ==
  IF nodes = <<>> THEN <<>>
  ELSE <<Head(nodes).id>> \o IdsOfNodes(Head(nodes).children)
         \o IdsOfNodes(Tail(nodes))

\* the answer of the GET /tree that has just been served
TreeServed == req[1].pc = "done" /\ req[1].op = "tree"

TreeData == req[1].response[1].data

\* C28: no doc is its own ancestor through parent_id, and the tree that
\* buildTree returns holds every doc exactly once, a doc whose parent is not
\* in the list as a root.
C28_TreeHoldsEveryDocOnce ==
  /\ \A d \in docs : ~IsOwnAncestor(d)
  /\ TreeServed =>
       LET ids == IdsOfNodes(TreeData)
       IN /\ Len(ids) = Cardinality(docs)
          /\ {ids[n] : n \in DOMAIN ids} = {d.id : d \in docs}
          /\ \A d \in docs :
               ParentsOf(d) = {} => \E n \in DOMAIN TreeData : TreeData[n].id = d.id

\* a tree of two roots, one of them a doc whose parent is gone
C28_Witness ==
  /\ TreeServed
  /\ Len(TreeData) = 2
  /\ Cardinality(docs) = 2
  /\ \E n \in DOMAIN TreeData :
       TreeData[n].parent_id # NULL /\ RowsWithId(TreeData[n].parent_id[1]) = {}

\* a doc's published_at agrees with its status
PublishedAtFollowsStatus ==
  \A d \in docs :
    /\ d.status = "draft" => d.published_at = NULL
    /\ d.status = "published" => d.published_at # NULL

\* a step that leaves a published doc published leaves its published_at
RepublishingKeepsPublishedAt ==
  \A d \in docs : \A e \in docs' :
    d.id = e.id /\ d.status = "published" /\ e.status = "published"
      => e.published_at = d.published_at

\* C30: a draft has published_at = NULL, a published doc a published_at,
\* and publishing a doc that is published leaves its published_at unchanged.
C30_PublishedAtFollowsStatus ==
  /\ [](PublishedAtFollowsStatus)
  /\ [][RepublishingKeepsPublishedAt]_vars

\* a doc published at time 1 has been published again after time 2 was
\* handed out, and still has the time 1
C30_Witness ==
  /\ req[1].pc = "done"
  /\ req[1].op = "put"
  /\ req[1].payload.status = Given("published")
  /\ req[1].response = Reply(200, <<>>)
  /\ req[1].existing # NULL
  /\ req[1].existing[1].status = "published"
  /\ now = 3
  /\ \E d \in RowsWithId(req[1].id) :
       d.status = "published" /\ d.published_at = Some(1)

\* no two docs have the same slug
SlugsUnique == \A d \in docs : \A e \in docs : d.id # e.id => d.slug # e.slug

\* the request r, a POST or a PUT of an existing doc that has passed its
\* first query, is finished by this step while another doc has its
\* normalized slug
FinishedWithTakenSlug(r) ==
  /\ req[r].pc \notin {"idle", "done"}
  /\ req'[r].pc = "done"
  /\ req[r].op \in {"post", "put"}
  /\ ~IsUndefined(req[r].payload.slug)
  /\ req[r].op = "put" => RowsWithId(req[r].id) # {}
  /\ \E d \in RowsWithSlug(normalizeSlug(req[r].payload.slug)) :
       d.id # req[r].id

\* such a request is answered 400 and the table is as it was
TakenSlugRejected ==
  \A r \in DocRequests :
    FinishedWithTakenSlug(r) =>
      /\ req'[r].response = Reply(400, <<>>)
      /\ docs' = docs

\* C29, as claimed: under any interleaving of concurrent create and update
\* requests no two docs have the same normalized slug, and a request whose
\* slug is taken by another doc is rejected with 400 and changes nothing.
C29_SlugsStayUnique ==
  /\ [](SlugsUnique)
  /\ [][TakenSlugRejected]_vars

\* two POSTs, of the slugs "a" and " /A/", both answered 201: two docs with
\* the slug a
C29_Witness ==
  /\ \A r \in DocRequests :
       /\ req[r].pc = "done"
       /\ req[r].op = "post"
       /\ req[r].response = Reply(201, <<>>)
  /\ req[1].payload.slug = req[2].payload.slug
  /\ Cardinality(docs) = 2
  /\ \A d \in docs : d.slug = <<"a">>

====
